---- MODULE Spec2Model ----
(***************************************************************************)
(* Paper-trading ledger of Crypto Trade Master.                            *)
(*                                                                         *)
(* Two page scripts carry a ledger: app.js (state.portfolio,               *)
(* state.transactions, confirmTrade) and the script kept as                *)
(* unnamed/part_001 (portfolio, transactions, executeTrade).  A browser    *)
(* session runs one of them; the variable script says which.               *)
(*                                                                         *)
(* JavaScript numbers are modelled as exact fractions <<n, d>> in lowest   *)
(* terms (d > 0), with <<0, 0>> for NaN and <<1, 0>>, <<-1, 0>> for the    *)
(* infinities.  IEEE-754 rounding is not modelled: every arithmetic        *)
(* operator below returns the exact result of the JavaScript operator.     *)
(***************************************************************************)
EXTENDS Integers, Sequences, FiniteSets, TLC

(***************************************************************************)
(* Bounds                                                                  *)
(***************************************************************************)
\* at most this many transactions are logged in one run
MaxTrades == 3

\* at most this many market responses arrive in one run
MaxFetches == 3

\* the system clock moves within this many ticks of its first reading
MaxClock == 2

(***************************************************************************)
(* JavaScript numbers                                                      *)
(***************************************************************************)
NaN == <<0, 0>>

PosInf == <<1, 0>>

NegInf == <<-1, 0>>

Abs(i) == IF i < 0 THEN -i ELSE i

RECURSIVE GCD(_, _)
GCD(a, b) == IF b = 0 THEN a ELSE GCD(b, a % b)

\* the fraction n/d in lowest terms with a positive denominator (d # 0)
Frac(n, d) ==
    LET g == GCD(Abs(n), Abs(d))
        s == IF d < 0 THEN -1 ELSE 1
    IN  <<(s * n) \div g, (s * d) \div g>>

Num(i) == <<i, 1>>

Zero == Num(0)

IsFinite(x) == x[2] # 0

IsNaN(x) == x = NaN

Sign(i) == IF i > 0 THEN 1 ELSE IF i < 0 THEN -1 ELSE 0

\* a + b
JsAdd(a, b) ==
    IF IsFinite(a) /\ IsFinite(b) THEN Frac(a[1] * b[2] + b[1] * a[2], a[2] * b[2])
    ELSE IF IsNaN(a) \/ IsNaN(b) THEN NaN
    ELSE IF IsFinite(a) THEN b
    ELSE IF IsFinite(b) THEN a
    ELSE IF a = b THEN a ELSE NaN

\* -a
JsNeg(a) == <<-a[1], a[2]>>

\* a - b
JsSub(a, b) == JsAdd(a, JsNeg(b))

\* a * b
JsMul(a, b) ==
    IF IsFinite(a) /\ IsFinite(b) THEN Frac(a[1] * b[1], a[2] * b[2])
    ELSE IF IsNaN(a) \/ IsNaN(b) THEN NaN
    ELSE <<Sign(a[1]) * Sign(b[1]), 0>>

\* a / b
JsDiv(a, b) ==
    IF IsNaN(a) \/ IsNaN(b) THEN NaN
    ELSE IF IsFinite(a) /\ IsFinite(b)
         THEN IF b[1] # 0 THEN Frac(a[1] * b[2], a[2] * b[1])
              ELSE <<Sign(a[1]), 0>>
    ELSE IF IsFinite(b) THEN <<Sign(a[1]) * (IF b[1] < 0 THEN -1 ELSE 1), 0>>
    ELSE IF IsFinite(a) THEN Zero
    ELSE NaN

\* a < b  (false whenever an operand is NaN)
JsLt(a, b) ==
    IF IsNaN(a) \/ IsNaN(b) THEN FALSE
    ELSE IF IsFinite(a) /\ IsFinite(b) THEN a[1] * b[2] < b[1] * a[2]
    ELSE IF IsFinite(a) THEN b = PosInf
    ELSE IF IsFinite(b) THEN a = NegInf
    ELSE a = NegInf /\ b = PosInf

\* a > b
JsGt(a, b) == JsLt(b, a)

\* a <= b
JsLe(a, b) == (~IsNaN(a) /\ ~IsNaN(b)) /\ (JsLt(a, b) \/ a = b)

\* a >= b
JsGe(a, b) == JsLe(b, a)

\* a === b on numbers
JsEq(a, b) == ~IsNaN(a) /\ ~IsNaN(b) /\ a = b

\* ToBoolean(a): 0 and NaN are falsy
Truthy(a) == ~IsNaN(a) /\ a # Zero

(***************************************************************************)
(* parseFloat on the text of the amount field                              *)
(***************************************************************************)
Digits == {"0", "1", "2", "3", "4", "5", "6", "7", "8", "9"}

DigitVal(c) ==
    CASE c = "0" -> 0 [] c = "1" -> 1 [] c = "2" -> 2 [] c = "3" -> 3
      [] c = "4" -> 4 [] c = "5" -> 5 [] c = "6" -> 6 [] c = "7" -> 7
      [] c = "8" -> 8 [] c = "9" -> 9

\* number of leading digits of s from position i
RECURSIVE DigitRun(_, _)
DigitRun(s, i) ==
    IF i <= Len(s) /\ s[i] \in Digits THEN 1 + DigitRun(s, i + 1) ELSE 0

\* value of the digits s[i .. i+k-1] read as a decimal integer
RECURSIVE DigitsVal(_, _, _)
DigitsVal(s, i, k) ==
    IF k = 0 THEN 0 ELSE DigitsVal(s, i, k - 1) * 10 + DigitVal(s[i + k - 1])

RECURSIVE Pow10(_)
Pow10(k) == IF k = 0 THEN 1 ELSE 10 * Pow10(k - 1)

\* number of characters of s that form the longest decimal literal
\* [+-] digits [. digits] | [+-] . digits ; 0 when there is none
LiteralLen(s) ==
    LET sg == IF Len(s) >= 1 /\ s[1] \in {"-", "+"} THEN 1 ELSE 0
        ip == DigitRun(s, sg + 1)
        dot == Len(s) >= sg + ip + 1 /\ s[sg + ip + 1] = "."
        fp == IF dot THEN DigitRun(s, sg + ip + 2) ELSE 0
    IN  IF ip = 0 /\ fp = 0 THEN 0
        ELSE IF dot THEN sg + ip + 1 + fp ELSE sg + ip

\* parseFloat(s): the longest decimal literal that prefixes s, else NaN
parseFloat(s) ==
    LET sg == IF Len(s) >= 1 /\ s[1] \in {"-", "+"} THEN 1 ELSE 0
        neg == Len(s) >= 1 /\ s[1] = "-"
        ip == DigitRun(s, sg + 1)
        dot == Len(s) >= sg + ip + 1 /\ s[sg + ip + 1] = "."
        fp == IF dot THEN DigitRun(s, sg + ip + 2) ELSE 0
        mag == DigitsVal(s, sg + 1, ip) * Pow10(fp) + DigitsVal(s, sg + ip + 2, fp)
    IN  IF ip = 0 /\ fp = 0 THEN NaN
        ELSE Frac(IF neg THEN -mag ELSE mag, Pow10(fp))

\* what the user can leave in the amount field
RawAmounts ==
    { <<>>, <<"a">>, <<"0">>, <<"-", "2">>, <<"2">>, <<"3">>, <<"2", "a">> }

(***************************************************************************)
(* Market data                                                             *)
(***************************************************************************)
Assets == {"btc", "eth"}

\* a coin of the market response: its id and its current_price
Coin(id, price) == [id |-> id, current_price |-> Num(price)]

\* the price path of the market: the k-th response of the endpoint is
\* MarketPath[k] (the path repeats after its last entry); each entry is the
\* set of coins of one response
MarketPath ==
    << {Coin("btc", 100), Coin("eth", 5000)},
       {Coin("btc", 200), Coin("eth", 0)},
       {Coin("btc", 150), Coin("eth", 50000)} >>

MarketResponse(k) == MarketPath[((k - 1) % Len(MarketPath)) + 1]

\* cryptoData.find(c => c.id === id), as a set of zero or one coin
Find(data, id) == {c \in data : c.id = id}

\* null for currentCoin
NoCoin == [id |-> "null", current_price |-> NaN]

(***************************************************************************)
(* State                                                                   *)
(***************************************************************************)
VARIABLES
    script,        \* which page script this session runs
    portfolio,     \* [balance, holdings]; holdings maps a held id to [amount, totalCost]
    transactions,  \* the log, newest first
    cryptoData,    \* the last market response
    fetches,       \* number of market responses received so far
    currentCoin,   \* coin the trade dialog was opened for (app.js: captured by the onclick closure)
    tradeType,     \* side of the trade (app.js: captured by the onclick closure)
    activeTab,     \* side the trade dialog shows (part_001: the tab with class
                   \* 'active' and the label of #tradeButton; app.js: #modalTitle)
    modalActive,   \* the trade dialog is shown
    localStorage,  \* the persisted records; <<>> is a missing key, <<v>> a stored value
    now,           \* the reading of the system clock, the value of new Date()
    last,          \* history: the last handler run, the ledger before it, its toast
    history,       \* history, newest first: the portfolio before each logged trade and
                   \* the clock reading at which the trade ran
    twin,          \* the ledger of the other script, run side by side on the
                   \* same trades: [portfolio, transactions]
    api,           \* the API module the page has imported ("none" before the import)
    cache,         \* the module's cache: for each key [data, timestamp]
    pending,       \* the calls of the module that await their network response
    returned,      \* history: the last step of a call of the module
    alerts,        \* part_001: the price alerts, in the order they were set
    page,          \* app.js: the page of the market table
    inflight,      \* app.js: the pages of the fetchMarkets calls that await their
                   \* response
    state,         \* part_002, market page: coins, searchQuery, sortKey, sortOrder,
                   \* currentPage
    marketTable    \* part_002, market page: what the last render showed, and
                   \* history: the last event and the page before it

\* the variables no handler of the ledger pages assigns
apiVars == <<api, cache, pending, returned>>

marketVars == <<state, marketTable>>

pageVars == <<page, inflight, marketVars>>

otherVars == <<twin, apiVars, alerts, pageVars>>

vars == <<script, portfolio, transactions, cryptoData, fetches, currentCoin,
          tradeType, activeTab, modalActive, localStorage, now, last, history,
          otherVars>>

Scripts == {"app.js", "part_001"}

\* the first reading of the system clock; the readings are 0 .. MaxClock
Epoch == 0

\* starting balance of each script
InitialBalance(s) == IF s = "app.js" THEN 100000 ELSE 10000

EmptyHoldings == [id \in {} |-> [amount |-> Zero, totalCost |-> Zero]]

InitialPortfolio(s) == [balance |-> Num(InitialBalance(s)), holdings |-> EmptyHoldings]

EmptyStorage == [portfolio |-> <<>>, transactions |-> <<>>, leaderboard |-> <<>>]

\* the part of the state a trade may change or persist
Ledger == [portfolio |-> portfolio, transactions |-> transactions,
           localStorage |-> localStorage]

\* JavaScript null and arrays, as the values a cache entry or a response holds
JsNull == [tag |-> "null", items |-> <<>>]

Array(items) == [tag |-> "array", items |-> items]

\* const cache = { coins: { data: null, timestamp: 0 }, news: { ... } }
EmptyCache ==
    [key \in {"coins", "news"} |-> [data |-> JsNull, timestamp |-> 0]]

NoReturn ==
    [kind |-> "none", key |-> "coins", at |-> 0, data |-> JsNull,
     cacheBefore |-> EmptyCache, stored |-> JsNull]

\* part_002: const state = { coins: [], searchQuery: '', sortKey:
\* 'market_cap_rank', sortOrder: 'asc', currentPage: 1, itemsPerPage: 20 }
itemsPerPage == 20

InitialState ==
    [coins |-> <<>>, searchQuery |-> <<>>, sortKey |-> "market_cap_rank",
     sortOrder |-> "asc", currentPage |-> 1]

\* the market page before init() has rendered and registered its listeners
NothingRendered ==
    [listening |-> FALSE, rows |-> <<>>, pageInfo |-> <<>>, prevDisabled |-> FALSE,
     nextDisabled |-> FALSE, event |-> "none", pageBefore |-> 1]

NoLast ==
    [op |-> "none", value |-> <<>>, coin |-> NoCoin, type |-> "buy", toast |-> "",
     before |-> [portfolio |-> InitialPortfolio("app.js"), transactions |-> <<>>,
                 localStorage |-> EmptyStorage]]

Init ==
    /\ script \in Scripts
    /\ portfolio = InitialPortfolio(script)
    /\ transactions = <<>>
    /\ cryptoData = {}
    /\ fetches = 0
    /\ currentCoin = NoCoin
    /\ tradeType = "buy"
    /\ activeTab = "buy"
    /\ modalActive = FALSE
    /\ localStorage = EmptyStorage
    /\ now = Epoch
    /\ last = NoLast
    /\ history = <<>>
    /\ twin = [portfolio |-> InitialPortfolio(script), transactions |-> <<>>]
    /\ api = "none"
    /\ cache = EmptyCache
    /\ pending = {}
    /\ returned = NoReturn
    /\ alerts = <<>>
    /\ page = 1
    /\ inflight = {}
    /\ state = InitialState
    /\ marketTable = NothingRendered

(***************************************************************************)
(* Persistence                                                             *)
(***************************************************************************)
\* JSON null
Null == <<0, -1>>

\* JSON.stringify of a number: NaN and the infinities are written as null
JSONNumber(x) == IF IsFinite(x) THEN x ELSE Null

\* JSON.stringify of the portfolio object
JSONPortfolio(pf) ==
    [balance |-> JSONNumber(pf.balance),
     holdings |-> [id \in DOMAIN pf.holdings |->
                     [amount |-> JSONNumber(pf.holdings[id].amount),
                      totalCost |-> JSONNumber(pf.holdings[id].totalCost)]]]

\* JSON.stringify of the transaction array
JSONTransactions(txs) ==
    [i \in 1..Len(txs) |->
        [date |-> txs[i].date, type |-> txs[i].type, coin |-> txs[i].coin,
         amount |-> JSONNumber(txs[i].amount), price |-> JSONNumber(txs[i].price),
         total |-> JSONNumber(txs[i].total)]]

\* mutant: only the portfolio is written
saveState_PortfolioOnly(ls, pf, txs) ==
    [ls EXCEPT !.portfolio = <<JSONPortfolio(pf)>>]

\* app.js saveState('portfolio'); saveState('transactions')
saveState(ls, pf, txs) ==
    [ls EXCEPT !.portfolio = <<JSONPortfolio(pf)>>,
               !.transactions = <<JSONTransactions(txs)>>]

\* part_001 saveToStorage()
saveToStorage(ls, pf, txs) ==
    [ls EXCEPT !.portfolio = <<JSONPortfolio(pf)>>,
               !.transactions = <<JSONTransactions(txs)>>]

\* JSON.parse of a stored record
JSONParse(json) == json

\* app.js loadState(): a stored record replaces the default of its key
loadState(ls, pf, txs) ==
    [portfolio |-> IF ls.portfolio # <<>> THEN JSONParse(ls.portfolio[1]) ELSE pf,
     transactions |-> IF ls.transactions # <<>> THEN JSONParse(ls.transactions[1])
                      ELSE txs]

\* mutant: the stored log is not read
loadFromStorage_PortfolioOnly(ls, pf, txs) ==
    [portfolio |-> IF ls.portfolio # <<>> THEN JSONParse(ls.portfolio[1]) ELSE pf,
     transactions |-> txs]

\* part_001 loadFromStorage()
loadFromStorage(ls, pf, txs) ==
    [portfolio |-> IF ls.portfolio # <<>> THEN JSONParse(ls.portfolio[1]) ELSE pf,
     transactions |-> IF ls.transactions # <<>> THEN JSONParse(ls.transactions[1])
                      ELSE txs]

\* mutant: only the leaderboard record is removed
clear_LeaderboardOnly(ls) == [ls EXCEPT !.leaderboard = <<>>]

\* localStorage.clear()
clear(ls) == [k \in DOMAIN ls |-> <<>>]

(***************************************************************************)
(* Holdings helpers                                                        *)
(***************************************************************************)
Held(pf, id) == id \in DOMAIN pf.holdings

\* holdings[id] = h
PutHolding(hs, id, h) ==
    [k \in DOMAIN hs \cup {id} |-> IF k = id THEN h ELSE hs[k]]

\* mutant: the holdings object is emptied
DeleteHolding_All(hs, id) == [k \in {} |-> hs[k]]

\* delete holdings[id]
DeleteHolding(hs, id) == [k \in DOMAIN hs \ {id} |-> hs[k]]

\* mutant: the date is not read from the clock
Transaction_FixedDate(date, type, coin, amount, total) ==
    [date |-> Epoch, type |-> type, coin |-> coin.id, amount |-> amount,
     price |-> coin.current_price, total |-> total]

\* the entry of the log: { date: new Date().toISOString(), type, coin, amount,
\* price, total }
Transaction(date, type, coin, amount, total) ==
    [date |-> date, type |-> type, coin |-> coin.id, amount |-> amount,
     price |-> coin.current_price, total |-> total]

\* mutant: transactions.push(tx), the new entry goes to the end
Unshift_Push(txs, tx) == txs \o <<tx>>

\* transactions.unshift(tx)
Unshift(txs, tx) == <<tx>> \o txs

(***************************************************************************)
(* app.js: confirmTrade                                                    *)
(***************************************************************************)
\* mutant: the records are written before the early return
Rejected_Saved(pf, txs, ls, msg) ==
    [portfolio |-> pf, transactions |-> txs, localStorage |-> saveState(ls, pf, txs),
     toast |-> msg, done |-> FALSE]

\* result of a trade handler that returned early: nothing but the toast changes
Rejected(pf, txs, ls, msg) ==
    [portfolio |-> pf, transactions |-> txs, localStorage |-> ls,
     toast |-> msg, done |-> FALSE]

\* mutant: the "|| 0" default is missing
confirmTradeAmount_NoDefault(value) == parseFloat(value)

\* const amount = parseFloat($('#tradeAmount').value) || 0
confirmTradeAmount(value) ==
    IF Truthy(parseFloat(value)) THEN parseFloat(value) ELSE Zero

\* mutant: the balance guard is missing
confirmTradeBuyRejected_Never(pf, total) == FALSE

\* the buy branch: the balance guard
confirmTradeBuyRejected(pf, total) == JsGt(total, pf.balance)

\* mutant: the quantity, not the total, is added to the cost basis
confirmTradeBuy_CostIsAmount(pf, coin, amount, total) ==
    LET h == IF Held(pf, coin.id) THEN pf.holdings[coin.id]
             ELSE [amount |-> Zero, totalCost |-> Zero]
        h2 == [amount |-> JsAdd(h.amount, amount),
               totalCost |-> JsAdd(h.totalCost, amount)]
    IN  [balance |-> JsSub(pf.balance, total),
         holdings |-> PutHolding(pf.holdings, coin.id, h2)]

\* the buy branch after its guard: the new portfolio
confirmTradeBuy(pf, coin, amount, total) ==
    LET h == IF Held(pf, coin.id) THEN pf.holdings[coin.id]
             ELSE [amount |-> Zero, totalCost |-> Zero]
        h2 == [amount |-> JsAdd(h.amount, amount),
               totalCost |-> JsAdd(h.totalCost, total)]
    IN  [balance |-> JsSub(pf.balance, total),
         holdings |-> PutHolding(pf.holdings, coin.id, h2)]

\* mutant: h.amount <= amount, a sell of the whole holding is refused
confirmTradeSellRejected_Le(pf, coin, amount) ==
    ~Held(pf, coin.id) \/ JsLe(pf.holdings[coin.id].amount, amount)

\* the sell branch: the holdings guard  (!h || h.amount < amount)
confirmTradeSellRejected(pf, coin, amount) ==
    ~Held(pf, coin.id) \/ JsLt(pf.holdings[coin.id].amount, amount)

\* mutant: the entry is deleted only when h.amount < 0
confirmTradeSell_KeepsEmpty(pf, coin, amount, total) ==
    LET h == pf.holdings[coin.id]
        avg == JsDiv(h.totalCost, h.amount)
        h2 == [amount |-> JsSub(h.amount, amount),
               totalCost |-> JsSub(h.totalCost, JsMul(avg, amount))]
    IN  [balance |-> JsAdd(pf.balance, total),
         holdings |-> IF JsLt(h2.amount, Zero)
                      THEN DeleteHolding(pf.holdings, coin.id)
                      ELSE PutHolding(pf.holdings, coin.id, h2)]

\* mutant: the balance is credited with the cost removed, not with the proceeds
confirmTradeSell_CreditsCost(pf, coin, amount, total) ==
    LET h == pf.holdings[coin.id]
        avg == JsDiv(h.totalCost, h.amount)
        h2 == [amount |-> JsSub(h.amount, amount),
               totalCost |-> JsSub(h.totalCost, JsMul(avg, amount))]
    IN  [balance |-> JsAdd(pf.balance, JsMul(avg, amount)),
         holdings |-> IF JsLe(h2.amount, Zero)
                      THEN DeleteHolding(pf.holdings, coin.id)
                      ELSE PutHolding(pf.holdings, coin.id, h2)]

\* the sell branch after its guard: the new portfolio
\* mutant: the average cost is taken after the quantity is decremented
confirmTradeSell_AverageAfter(pf, coin, amount, total) ==
    LET h == pf.holdings[coin.id]
        amount2 == JsSub(h.amount, amount)
        h2 == [amount |-> amount2,
               totalCost |-> JsSub(h.totalCost,
                                   JsMul(JsDiv(h.totalCost, amount2), amount))]
    IN  [balance |-> JsAdd(pf.balance, total),
         holdings |-> IF JsLe(h2.amount, Zero)
                      THEN DeleteHolding(pf.holdings, coin.id)
                      ELSE PutHolding(pf.holdings, coin.id, h2)]

confirmTradeSell(pf, coin, amount, total) ==
    LET h == pf.holdings[coin.id]
        avg == JsDiv(h.totalCost, h.amount)
        h2 == [amount |-> JsSub(h.amount, amount),
               totalCost |-> JsSub(h.totalCost, JsMul(avg, amount))]
    IN  [balance |-> JsAdd(pf.balance, total),
         holdings |-> IF JsLe(h2.amount, Zero)
                      THEN DeleteHolding(pf.holdings, coin.id)
                      ELSE PutHolding(pf.holdings, coin.id, h2)]

\* confirmTrade(coin, type) with value in the amount field, at clock reading date
confirmTrade(pf, txs, ls, coin, type, value, date) ==
    LET amount == confirmTradeAmount(value)
        total == JsMul(amount, coin.current_price)
        Applied(pf2, side) ==
            LET txs2 == Unshift(txs, Transaction(date, side, coin, amount, total))
            IN  [portfolio |-> pf2, transactions |-> txs2,
                 localStorage |-> saveState(ls, pf2, txs2),
                 toast |-> "Trade successful", done |-> TRUE]
    IN  IF JsLe(amount, Zero) THEN Rejected(pf, txs, ls, "Enter a valid amount")
        ELSE IF type = "buy"
             THEN IF confirmTradeBuyRejected(pf, total)
                  THEN Rejected(pf, txs, ls, "Insufficient balance")
                  ELSE Applied(confirmTradeBuy(pf, coin, amount, total), "BUY")
        ELSE IF confirmTradeSellRejected(pf, coin, amount)
             THEN Rejected(pf, txs, ls, "Not enough holdings")
             ELSE Applied(confirmTradeSell(pf, coin, amount, total), "SELL")

(***************************************************************************)
(* part_001: executeTrade                                                  *)
(***************************************************************************)
\* value of <input type="number" id="tradeAmount"> for the typed text: the
\* empty string unless the whole text is a decimal literal
InputNumberValue(text) ==
    IF Len(text) > 0 /\ LiteralLen(text) = Len(text) THEN text ELSE <<>>

\* mutant: the "!amount" test is missing, NaN passes
executeTradeInvalid_NoNaNTest(amount) == JsLe(amount, Zero)

\* !amount || amount <= 0
executeTradeInvalid(amount) == ~Truthy(amount) \/ JsLe(amount, Zero)

\* mutant: totalCost >= portfolio.balance
executeTradeBuyRejected_Ge(pf, totalCost) == JsLe(pf.balance, totalCost)

\* totalCost > portfolio.balance
executeTradeBuyRejected(pf, totalCost) == JsGt(totalCost, pf.balance)

\* mutant: the cost basis is overwritten instead of accumulated
executeTradeBuy_Overwrite(pf, coin, amount, totalCost) ==
    LET hs == IF Held(pf, coin.id) THEN pf.holdings
              ELSE PutHolding(pf.holdings, coin.id, [amount |-> Zero, totalCost |-> Zero])
        h2 == [amount |-> JsAdd(hs[coin.id].amount, amount),
               totalCost |-> totalCost]
    IN  [balance |-> JsSub(pf.balance, totalCost),
         holdings |-> PutHolding(hs, coin.id, h2)]

\* the buy branch after its guard: the new portfolio
executeTradeBuy(pf, coin, amount, totalCost) ==
    LET hs == IF Held(pf, coin.id) THEN pf.holdings
              ELSE PutHolding(pf.holdings, coin.id, [amount |-> Zero, totalCost |-> Zero])
        h2 == [amount |-> JsAdd(hs[coin.id].amount, amount),
               totalCost |-> JsAdd(hs[coin.id].totalCost, totalCost)]
    IN  [balance |-> JsSub(pf.balance, totalCost),
         holdings |-> PutHolding(hs, coin.id, h2)]

\* !holding || holding.amount < amount
executeTradeSellRejected(pf, coin, amount) ==
    ~Held(pf, coin.id) \/ JsLt(pf.holdings[coin.id].amount, amount)

\* mutant: the average cost is taken over the quantity after the decrement
executeTradeSell_PostDecrement(pf, coin, amount, totalCost) ==
    LET holding == pf.holdings[coin.id]
        amount2 == JsSub(holding.amount, amount)
        cost2 == JsSub(holding.totalCost,
                       JsMul(JsDiv(holding.totalCost, amount2), amount))
        h2 == [amount |-> amount2, totalCost |-> cost2]
    IN  [balance |-> JsAdd(pf.balance, totalCost),
         holdings |-> IF JsEq(amount2, Zero)
                      THEN DeleteHolding(pf.holdings, coin.id)
                      ELSE PutHolding(pf.holdings, coin.id, h2)]

\* the sell branch after its guard: the new portfolio
executeTradeSell(pf, coin, amount, totalCost) ==
    LET holding == pf.holdings[coin.id]
        amount2 == JsSub(holding.amount, amount)
        cost2 == JsSub(holding.totalCost,
                       JsMul(JsDiv(holding.totalCost, JsAdd(amount2, amount)), amount))
        h2 == [amount |-> amount2, totalCost |-> cost2]
    IN  [balance |-> JsAdd(pf.balance, totalCost),
         holdings |-> IF JsEq(amount2, Zero)
                      THEN DeleteHolding(pf.holdings, coin.id)
                      ELSE PutHolding(pf.holdings, coin.id, h2)]

\* mutant: the "if (coin)" test is missing, a holding without a coin in the
\* market data contributes amount * undefined
RECURSIVE SumValue_NoGuard(_, _, _)
SumValue_NoGuard(pf, data, ids) ==
    IF ids = {} THEN Zero
    ELSE LET id == CHOOSE x \in ids : TRUE
             priced == Find(data, id)
             v == IF priced = {} THEN NaN
                  ELSE JsMul(pf.holdings[id].amount,
                             (CHOOSE c \in priced : TRUE).current_price)
         IN  JsAdd(v, SumValue_NoGuard(pf, data, ids \ {id}))

\* portfolio.balance + sum of amount * current_price over the priced holdings
RECURSIVE SumValue(_, _, _)
SumValue(pf, data, ids) ==
    IF ids = {} THEN Zero
    ELSE LET id == CHOOSE x \in ids : TRUE
             priced == Find(data, id)
             v == IF priced = {} THEN Zero
                  ELSE JsMul(pf.holdings[id].amount,
                             (CHOOSE c \in priced : TRUE).current_price)
         IN  JsAdd(v, SumValue(pf, data, ids \ {id}))

\* updateLeaderboard(): the stored board holds the one entry 'You'
updateLeaderboard(ls, pf, data) ==
    [ls EXCEPT !.leaderboard =
        <<JSONNumber(JsAdd(pf.balance, SumValue(pf, data, DOMAIN pf.holdings)))>>]

\* executeTrade() with value in the amount field, at clock reading date
executeTrade(pf, txs, ls, data, coin, type, value, date) ==
    LET amount == parseFloat(value)
        totalCost == JsMul(amount, coin.current_price)
        Applied(pf2, side, msg) ==
            LET txs2 == Unshift(txs, Transaction(date, side, coin, amount, totalCost))
            IN  [portfolio |-> pf2, transactions |-> txs2,
                 localStorage |-> updateLeaderboard(saveToStorage(ls, pf2, txs2), pf2, data),
                 toast |-> msg, done |-> TRUE]
    IN  IF executeTradeInvalid(amount)
        THEN Rejected(pf, txs, ls, "Please enter a valid amount")
        ELSE IF type = "buy"
             THEN IF executeTradeBuyRejected(pf, totalCost)
                  THEN Rejected(pf, txs, ls, "Insufficient balance!")
                  ELSE Applied(executeTradeBuy(pf, coin, amount, totalCost), "BUY",
                               "Successfully bought")
        ELSE IF executeTradeSellRejected(pf, coin, amount)
             THEN Rejected(pf, txs, ls, "Insufficient holdings!")
             ELSE Applied(executeTradeSell(pf, coin, amount, totalCost), "SELL",
                          "Successfully sold")

(***************************************************************************)
(* Valuation and rendering                                                 *)
(***************************************************************************)
\* app.js updateUI(): the total shown in #heroPortfolioValue
updateUI(pf, data) == JsAdd(pf.balance, SumValue(pf, data, DOMAIN pf.holdings))

\* sum of amount * current_price - totalCost over the priced holdings
RECURSIVE SumPL(_, _, _)
SumPL(pf, data, ids) ==
    IF ids = {} THEN Zero
    ELSE LET id == CHOOSE x \in ids : TRUE
             priced == Find(data, id)
             v == IF priced = {} THEN Zero
                  ELSE JsSub(JsMul(pf.holdings[id].amount,
                                   (CHOOSE c \in priced : TRUE).current_price),
                             pf.holdings[id].totalCost)
         IN  JsAdd(v, SumPL(pf, data, ids \ {id}))

\* part_001 updatePortfolioValues(): the totals shown in the header
updatePortfolioValues(pf, data) ==
    [totalValue |-> JsAdd(pf.balance, SumValue(pf, data, DOMAIN pf.holdings)),
     totalPL |-> SumPL(pf, data, DOMAIN pf.holdings)]

\* app.js updateUI(): the rows of #holdingsList
updateUIHoldings(pf, data) ==
    [id \in DOMAIN pf.holdings |->
        LET h == pf.holdings[id]
            c == Find(data, id)
        IN  [current |-> IF c # {}
                         THEN JsMul(h.amount, (CHOOSE x \in c : TRUE).current_price)
                         ELSE Zero,
             avg |-> JsDiv(h.totalCost, h.amount)]]

\* part_001 displayPortfolio(): the rows of #portfolioTable, one for each holding
\* whose coin is in the market data
displayPortfolio(pf, data) ==
    [coinId \in {k \in DOMAIN pf.holdings : Find(data, k) # {}} |->
        LET holding == pf.holdings[coinId]
            coin == CHOOSE c \in Find(data, coinId) : TRUE
            currentValue == JsMul(holding.amount, coin.current_price)
            pl == JsSub(currentValue, holding.totalCost)
        IN  [currentValue |-> currentValue,
             avgPrice |-> JsDiv(holding.totalCost, holding.amount),
             pl |-> pl,
             plPercent |-> JsMul(JsDiv(pl, holding.totalCost), Num(100))]]

\* what app.js updateUI() renders
AppView(pf, data) == [total |-> updateUI(pf, data), rows |-> updateUIHoldings(pf, data)]

\* what part_001 updateUI() renders
PartView(pf, data) ==
    [total |-> updatePortfolioValues(pf, data).totalValue,
     rows |-> displayPortfolio(pf, data)]

(***************************************************************************)
(* Actions                                                                 *)
(***************************************************************************)
\* the record kept in last for a handler run that is not a trade
Ran(op) == [NoLast EXCEPT !.op = op, !.before = Ledger]

\* the last handler run was a trade attempt that changed nothing of the ledger:
\* the state it leaves differs from the state before it in last alone, so the
\* steps from it are the steps already taken from the state before it
Unchanged == last.op = "trade" /\ last.before = Ledger

\* a run is followed until MaxTrades transactions are logged; the steps after an
\* attempt that changed nothing are not taken a second time
RunOpen == Len(transactions) < MaxTrades /\ ~Unchanged

\* mutant: the response handler also starts the ledger afresh
FetchMarkets_ResetsLedger ==
    /\ script = "app.js"
    /\ RunOpen
    /\ fetches < MaxFetches
    /\ fetches' = fetches + 1
    /\ cryptoData' = MarketResponse(fetches + 1)
    /\ portfolio' = InitialPortfolio(script)
    /\ last' = NoLast
    /\ UNCHANGED <<otherVars, script, now, transactions, currentCoin, tradeType, activeTab,
                   modalActive, localStorage, history>>

\* app.js fetchMarkets: a response arrives and replaces cryptoData
FetchMarkets ==
    /\ script = "app.js"
    /\ RunOpen
    /\ fetches < MaxFetches
    /\ fetches' = fetches + 1
    /\ cryptoData' = MarketResponse(fetches + 1)
    /\ last' = NoLast
    /\ UNCHANGED <<otherVars, script, now, portfolio, transactions, currentCoin, tradeType, activeTab,
                   modalActive, localStorage, history>>

\* the alert's target lies on the side of the price it was set at where the
\* price p now is or has passed
AlertReached(alert, p) ==
    \/ JsGe(alert.targetPrice, alert.currentPrice) /\ JsGe(p, alert.targetPrice)
    \/ JsLe(alert.targetPrice, alert.currentPrice) /\ JsLe(p, alert.targetPrice)

\* the body of the callback of checkAlerts for the element at index: TRUE when
\* it splices the element out
AlertFires(alert, data) ==
    /\ Find(data, alert.coinId) # {}
    /\ AlertReached(alert, (CHOOSE c \in Find(data, alert.coinId) : TRUE).current_price)

\* list.splice(index, 1), index counted from 1
Splice(list, index) ==
    [i \in 1..(Len(list) - 1) |-> IF i < index THEN list[i] ELSE list[i + 1]]

\* alerts.forEach((alert, index) => ...): the indices 1..len are visited in
\* order, len being the length when forEach was called; an index the array no
\* longer has is passed over; a splice moves the later elements one index down
\* while the visit goes on at index + 1
RECURSIVE forEachAlert(_, _, _, _)
forEachAlert(list, data, index, len) ==
    IF index > len \/ index > Len(list) THEN list
    ELSE IF AlertFires(list[index], data)
         THEN forEachAlert(Splice(list, index), data, index + 1, len)
         ELSE forEachAlert(list, data, index + 1, len)

\* part_001 checkAlerts() over the market data just received
checkAlerts(list, data) == forEachAlert(list, data, 1, Len(list))

\* part_001 fetchCryptoData: a response arrives and replaces cryptoData, then
\* checkAlerts() runs, and it calls saveToStorage() for each alert it removes
FetchCryptoData ==
    /\ script = "part_001"
    /\ RunOpen
    /\ fetches < MaxFetches
    /\ fetches' = fetches + 1
    /\ cryptoData' = MarketResponse(fetches + 1)
    /\ alerts' = checkAlerts(alerts, MarketResponse(fetches + 1))
    /\ localStorage' = IF alerts' # alerts
                       THEN saveToStorage(localStorage, portfolio, transactions)
                       ELSE localStorage
    /\ last' = NoLast
    /\ UNCHANGED <<twin, apiVars, pageVars, script, now, portfolio, transactions,
                   currentCoin, tradeType, activeTab, modalActive, history>>

\* app.js openTradeModalFor(id, type)
OpenTradeModalFor ==
    /\ script = "app.js"
    /\ RunOpen
    /\ \E id \in Assets, type \in {"buy", "sell"} :
          /\ Find(cryptoData, id) # {}
          /\ currentCoin' = CHOOSE c \in Find(cryptoData, id) : TRUE
          /\ tradeType' = type
          /\ activeTab' = type
    /\ modalActive' = TRUE
    /\ last' = NoLast
    /\ UNCHANGED <<otherVars, script, now, portfolio, transactions, cryptoData, fetches, localStorage,
                   history>>

\* part_001 openTradeModal(coinId), from a card of the rendered grid: the dialog
\* is rendered anew with the Buy tab active; tradeType is not assigned
OpenTradeModal ==
    /\ script = "part_001"
    /\ RunOpen
    /\ \E id \in Assets :
          /\ Find(cryptoData, id) # {}
          /\ currentCoin' = CHOOSE c \in Find(cryptoData, id) : TRUE
    /\ activeTab' = "buy"
    /\ modalActive' = TRUE
    /\ last' = NoLast
    /\ UNCHANGED <<otherVars, script, now, portfolio, transactions, cryptoData, fetches, tradeType,
                   localStorage, history>>

\* part_001 setTradeType(type), from the tabs of the dialog
SetTradeType ==
    /\ script = "part_001"
    /\ RunOpen
    /\ modalActive
    /\ \E type \in {"buy", "sell"} : tradeType' = type /\ activeTab' = type
    /\ last' = NoLast
    /\ UNCHANGED <<otherVars, script, now, portfolio, transactions, cryptoData, fetches, currentCoin,
                   modalActive, localStorage, history>>

\* the dialog is dismissed (app.js #modalClose, part_001 closeModal)
CloseModal ==
    /\ RunOpen
    /\ modalActive
    /\ modalActive' = FALSE
    /\ last' = NoLast
    /\ UNCHANGED <<otherVars, script, now, portfolio, transactions, cryptoData, fetches, currentCoin,
                   tradeType, activeTab, localStorage, history>>

\* the record kept in last for a trade handler run
TradeRun(value, msg) ==
    [op |-> "trade", value |-> value, coin |-> currentCoin, type |-> tradeType,
     toast |-> msg, before |-> Ledger]

\* app.js: the user leaves one of texts in the amount field and presses Confirm
ConfirmTradeOf(texts) ==
    /\ script = "app.js"
    /\ RunOpen
    /\ modalActive
    /\ \E text \in texts :
          \E r \in {confirmTrade(portfolio, transactions, localStorage,
                                currentCoin, tradeType, text, now)} :
              /\ portfolio' = r.portfolio
              /\ transactions' = r.transactions
              /\ localStorage' = r.localStorage
              /\ modalActive' = ~r.done
              /\ history' = IF r.done
                            THEN <<[before |-> portfolio, at |-> now]>> \o history
                            ELSE history
              /\ last' = TradeRun(text, r.toast)
    /\ UNCHANGED <<otherVars, script, now, cryptoData, fetches, currentCoin, tradeType, activeTab>>

ConfirmTrade == ConfirmTradeOf(RawAmounts)

\* part_001: the user leaves one of texts in the amount field and presses the
\* trade button
ExecuteTradeOf(texts) ==
    /\ script = "part_001"
    /\ RunOpen
    /\ modalActive
    /\ \E value \in {InputNumberValue(text) : text \in texts} :
          \E r \in {executeTrade(portfolio, transactions, localStorage, cryptoData,
                                currentCoin, tradeType, value, now)} :
              /\ portfolio' = r.portfolio
              /\ transactions' = r.transactions
              /\ localStorage' = r.localStorage
              /\ modalActive' = ~r.done
              /\ history' = IF r.done
                            THEN <<[before |-> portfolio, at |-> now]>> \o history
                            ELSE history
              /\ last' = TradeRun(value, r.toast)
    /\ UNCHANGED <<otherVars, script, now, cryptoData, fetches, currentCoin, tradeType, activeTab>>

ExecuteTrade == ExecuteTradeOf(RawAmounts)

\* the page is loaded again: the script starts from its initial state and loads
\* the stored records (part_001 renders at once, before any response arrives)
Reload ==
    /\ \E r \in {IF script = "app.js"
                  THEN loadState(localStorage, InitialPortfolio(script), <<>>)
                  ELSE loadFromStorage(localStorage, InitialPortfolio(script), <<>>)} :
          /\ portfolio' = r.portfolio
          /\ transactions' = r.transactions
          /\ last' = Ran("reload")
    /\ cryptoData' = {}
    /\ currentCoin' = NoCoin
    /\ tradeType' = "buy"
    /\ activeTab' = "buy"
    /\ modalActive' = FALSE
    /\ UNCHANGED <<otherVars, script, now, fetches, localStorage, history>>

\* the Reset entry of the profile menu: localStorage.clear(); location.reload()
Reset ==
    /\ \E ls \in {clear(localStorage)} :
          /\ localStorage' = ls
          /\ \E r \in {IF script = "app.js"
                        THEN loadState(ls, InitialPortfolio(script), <<>>)
                        ELSE loadFromStorage(ls, InitialPortfolio(script), <<>>)} :
                /\ portfolio' = r.portfolio
                /\ transactions' = r.transactions
                /\ last' = Ran("reset")
    /\ cryptoData' = {}
    /\ currentCoin' = NoCoin
    /\ tradeType' = "buy"
    /\ activeTab' = "buy"
    /\ modalActive' = FALSE
    /\ history' = <<>>
    /\ UNCHANGED <<otherVars, script, now, fetches>>

Next ==
    \/ FetchMarkets
    \/ FetchCryptoData
    \/ OpenTradeModalFor
    \/ OpenTradeModal
    \/ SetTradeType
    \/ CloseModal
    \/ ConfirmTrade
    \/ ExecuteTrade
    \/ Reload
    \/ Reset

Spec == Init /\ [][Next]_vars

(***************************************************************************)
(* The system clock.  Spec keeps the clock at its first reading: no        *)
(* handler reads the date of a transaction.  SpecClock lets the clock move *)
(* between the handler runs and follows the buys of one quantity of one    *)
(* asset, with a market response fetched only when the page has none.      *)
(***************************************************************************)
\* time passes
ClockTick ==
    /\ RunOpen
    /\ now < MaxClock
    /\ now' = now + 1
    /\ last' = NoLast
    /\ UNCHANGED <<otherVars, script, portfolio, transactions, cryptoData, fetches, currentCoin,
                   tradeType, activeTab, modalActive, localStorage, history>>

\* the system clock is set back (by the user or by a time synchronisation)
ClockSetBack ==
    /\ RunOpen
    /\ \E t \in 0..(now - 1) : now' = t
    /\ last' = NoLast
    /\ UNCHANGED <<otherVars, script, portfolio, transactions, cryptoData, fetches, currentCoin,
                   tradeType, activeTab, modalActive, localStorage, history>>

ClockAmounts == { <<"2">> }

NextClock ==
    \/ ClockTick
    \/ ClockSetBack
    \/ (cryptoData = {} /\ FetchMarkets)
    \/ (cryptoData = {} /\ FetchCryptoData)
    \/ (OpenTradeModalFor /\ currentCoin'.id = "btc" /\ tradeType' = "buy")
    \/ (OpenTradeModal /\ currentCoin'.id = "btc")
    \/ ConfirmTradeOf(ClockAmounts)
    \/ ExecuteTradeOf(ClockAmounts)
    \/ Reload

SpecClock == Init /\ [][NextClock]_vars

(***************************************************************************)
(* Storage write failure                                                   *)
(*                                                                         *)
(* localStorage.setItem throws (QuotaExceededError) when the storage area  *)
(* is full; neither script catches it, so the exception ends the trade     *)
(* handler at the write that threw.  SpecQuota adds the handler runs in    *)
(* which the k-th write after an applied trade throws.                     *)
(***************************************************************************)
\* the storage after a save whose k-th setItem threw (portfolio is written
\* first, transactions second, alerts or the leaderboard after them)
savePartly(ls, pf, txs, k) ==
    IF k = 1 THEN ls
    ELSE IF k = 2 THEN [ls EXCEPT !.portfolio = <<JSONPortfolio(pf)>>]
    ELSE [ls EXCEPT !.portfolio = <<JSONPortfolio(pf)>>,
                    !.transactions = <<JSONTransactions(txs)>>]

\* mutant: the applied trade is undone when the write throws
confirmTradeThrows_RollsBack(pf, txs, ls, coin, type, value, date, k) ==
    [portfolio |-> pf, transactions |-> txs, localStorage |-> ls,
     toast |-> "", done |-> FALSE]

\* app.js confirmTrade(coin, type) when its k-th saveState throws: the
\* statements before the write have run, updateUI(), the removal of 'active'
\* and showToast have not
confirmTradeThrows(pf, txs, ls, coin, type, value, date, k) ==
    LET r == confirmTrade(pf, txs, ls, coin, type, value, date)
    IN  [portfolio |-> r.portfolio, transactions |-> r.transactions,
         localStorage |-> savePartly(ls, r.portfolio, r.transactions, k),
         toast |-> "", done |-> FALSE]

\* part_001 executeTrade() when the k-th write of saveToStorage() throws: the
\* notification has been shown, updateUI(), updateLeaderboard() and
\* closeModal() have not run
executeTradeThrows(pf, txs, ls, data, coin, type, value, date, k) ==
    LET r == executeTrade(pf, txs, ls, data, coin, type, value, date)
    IN  [portfolio |-> r.portfolio, transactions |-> r.transactions,
         localStorage |-> savePartly(ls, r.portfolio, r.transactions, k),
         toast |-> r.toast, done |-> FALSE]

\* the record kept in last for a trade handler run ended by a throwing write
ThrowRun(value, msg) == [TradeRun(value, msg) EXCEPT !.op = "throw"]

QuotaAmounts == { <<"2">>, <<"3">> }

\* app.js: Confirm is pressed, the trade is applied and a saveState throws
ConfirmTradeThrows ==
    /\ script = "app.js"
    /\ RunOpen
    /\ modalActive
    /\ \E text \in QuotaAmounts, k \in 1..2 :
          /\ confirmTrade(portfolio, transactions, localStorage,
                          currentCoin, tradeType, text, now).done
          /\ \E r \in {confirmTradeThrows(portfolio, transactions, localStorage,
                                         currentCoin, tradeType, text, now, k)} :
                /\ portfolio' = r.portfolio
                /\ transactions' = r.transactions
                /\ localStorage' = r.localStorage
                /\ last' = ThrowRun(text, r.toast)
    /\ history' = <<[before |-> portfolio, at |-> now]>> \o history
    /\ UNCHANGED <<otherVars, script, now, cryptoData, fetches, currentCoin, tradeType, activeTab,
                   modalActive>>

\* part_001: the trade button is pressed, the trade is applied and a write of
\* saveToStorage() throws
ExecuteTradeThrows ==
    /\ script = "part_001"
    /\ RunOpen
    /\ modalActive
    /\ \E text \in QuotaAmounts, k \in 1..3 :
          /\ executeTrade(portfolio, transactions, localStorage, cryptoData,
                          currentCoin, tradeType, text, now).done
          /\ \E r \in {executeTradeThrows(portfolio, transactions, localStorage,
                                         cryptoData, currentCoin, tradeType, text,
                                         now, k)} :
                /\ portfolio' = r.portfolio
                /\ transactions' = r.transactions
                /\ localStorage' = r.localStorage
                /\ last' = ThrowRun(text, r.toast)
    /\ history' = <<[before |-> portfolio, at |-> now]>> \o history
    /\ UNCHANGED <<otherVars, script, now, cryptoData, fetches, currentCoin, tradeType, activeTab,
                   modalActive>>

NextQuota ==
    \/ (cryptoData = {} /\ FetchMarkets)
    \/ (cryptoData = {} /\ FetchCryptoData)
    \/ OpenTradeModalFor
    \/ OpenTradeModal
    \/ SetTradeType
    \/ ConfirmTradeOf(QuotaAmounts)
    \/ ExecuteTradeOf(QuotaAmounts)
    \/ ConfirmTradeThrows
    \/ ExecuteTradeThrows

SpecQuota == Init /\ [][NextQuota]_vars

(***************************************************************************)
(* The two trade handlers side by side                                     *)
(*                                                                         *)
(* SpecLockstep gives one sequence of trade intents (asset, side,          *)
(* quantity, price) to confirmTrade of app.js, which works on portfolio    *)
(* and transactions, and to executeTrade of part_001, which works on twin; *)
(* both start from the starting balance of script.                         *)
(***************************************************************************)
\* the coins a trade intent can name: each asset at its first two prices
IntentCoins == MarketPath[1] \cup MarketPath[2]

\* the quantities of the intents, as the decimal literals both amount fields take
IntentAmounts == { <<"0">>, <<"2">>, <<"3">> }

\* one intent is given to both handlers; the intents after one that both
\* handlers rejected are those of the state before it and are not given again
LockstepTrade ==
    /\ Len(transactions) < MaxTrades
    /\ ~(last.op = "lockstep" /\ last.before = Ledger /\ last.twin = twin)
    /\ \E coin \in IntentCoins, type \in {"buy", "sell"}, text \in IntentAmounts :
          /\ \E r \in {confirmTrade(portfolio, transactions, localStorage,
                                   coin, type, text, now)} :
                /\ portfolio' = r.portfolio
                /\ transactions' = r.transactions
                /\ localStorage' = r.localStorage
                /\ history' = IF r.done
                              THEN <<[before |-> portfolio, at |-> now]>> \o history
                              ELSE history
                /\ last' = [op |-> "lockstep", value |-> text, coin |-> coin,
                            type |-> type, toast |-> r.toast, before |-> Ledger,
                            twin |-> twin]
          /\ \E t \in {executeTrade(twin.portfolio, twin.transactions, EmptyStorage,
                                   {}, coin, type, InputNumberValue(text), now)} :
                twin' = [portfolio |-> t.portfolio, transactions |-> t.transactions]
    /\ UNCHANGED <<script, now, cryptoData, fetches, currentCoin, tradeType, activeTab,
                   modalActive, apiVars, alerts, pageVars>>

NextLockstep == LockstepTrade

SpecLockstep == Init /\ [][NextLockstep]_vars

(***************************************************************************)
(* The API module: TTL cache with fallback on error                        *)
(*                                                                         *)
(* api.js and the module kept as unnamed/part_000 export fetchCoins and    *)
(* fetchCryptoNews over one cache object.  A call that does not find a     *)
(* fresh entry awaits a network response; other calls and clock readings   *)
(* can come in between.  One clock reading is TickMs milliseconds after    *)
(* the one before it.                                                      *)
(***************************************************************************)
\* the variables of the ledger pages but the clock
ledgerVars == <<script, portfolio, transactions, cryptoData, fetches, currentCoin,
                tradeType, activeTab, modalActive, localStorage, last, history, twin,
                alerts>>

\* API_CONFIG.CACHE_DURATION, in milliseconds
CACHE_DURATION == 60000

\* milliseconds between two readings of the clock
TickMs == 30000

\* Date.now()
DateNow == now * TickMs

\* at most this many calls await their response at a time
MaxPending == 2

ApiModules == {"api.js", "part_000"}

CacheKeys == {"coins", "news"}

\* a value is truthy unless it is null: every array is truthy, the empty one too
TruthyData(d) == d.tag # "null"

\* a || b
Or(a, b) == IF TruthyData(a) THEN a ELSE b

\* getMockNews()
getMockNews == Array(<<"mock">>)

\* the default fallbackFn of fetchWithCache: () => []
DefaultFallback == Array(<<>>)

\* the fallbackFn fetchWithCache is called with for key
FallbackFn(key) == IF key = "news" THEN getMockNews ELSE DefaultFallback

\* the parsed bodies of the responses: value is the parsed JSON, articles its
\* articles property (null when it has none)
Bodies(key) ==
    IF key = "coins"
    THEN { [value |-> Array(<<"c1">>), articles |-> JsNull],
           [value |-> Array(<<"c2">>), articles |-> JsNull] }
    ELSE { [value |-> [tag |-> "object", items |-> <<"n1">>],
            articles |-> Array(<<"n1">>)],
           [value |-> [tag |-> "object", items |-> <<>>], articles |-> JsNull] }

\* mutant: an entry is still valid at the instant it expires
Fresh_AtExpiry(entry, t) ==
    TruthyData(entry.data) /\ t - entry.timestamp <= CACHE_DURATION

\* cache[key].data && Date.now() - cache[key].timestamp < CACHE_DURATION
Fresh(entry, t) ==
    TruthyData(entry.data) /\ t - entry.timestamp < CACHE_DURATION

\* the page imports one of the two modules
ImportApi ==
    /\ api = "none"
    /\ api' \in ApiModules
    /\ UNCHANGED <<ledgerVars, pageVars, now, cache, pending, returned>>

\* fetchCoins() or fetchCryptoNews() is called: it returns the fresh entry, or
\* starts a request and awaits the response
ApiCall ==
    /\ api # "none"
    /\ \E key \in CacheKeys :
          IF Fresh(cache[key], DateNow)
          THEN /\ returned' = [kind |-> "hit", key |-> key, at |-> DateNow,
                               data |-> cache[key].data, cacheBefore |-> cache,
                               stored |-> JsNull]
               /\ UNCHANGED pending
          ELSE /\ Cardinality(pending) < MaxPending
               /\ pending' = pending \cup {[key |-> key, now |-> DateNow,
                                            cachedItem |-> cache[key]]}
               /\ returned' = [kind |-> "sent", key |-> key, at |-> DateNow,
                               data |-> JsNull, cacheBefore |-> cache,
                               stored |-> JsNull]
    /\ UNCHANGED <<ledgerVars, pageVars, now, api, cache>>

\* what a call stores in the cache when its response is ok with the parsed body
Stored(key, body) ==
    IF api = "api.js" THEN Or(body.articles, body.value)
    ELSE IF key = "coins" THEN body.value
    ELSE Or(body.articles, Array(<<>>))

\* the timestamp of the entry a call p stores: api.js takes the reading made
\* when the call started, part_000 reads the clock again
StoredAt(p) == IF api = "api.js" THEN p.now ELSE DateNow

\* what a call p returns when its request fails (the response is not ok, or
\* fetch or response.json() rejects)
Fallback(p) ==
    IF api = "api.js"
    THEN Or(FallbackFn(p.key), Or(p.cachedItem.data, Array(<<>>)))
    ELSE IF p.key = "coins" THEN Or(cache.coins.data, Array(<<>>))
    ELSE getMockNews

\* the response of a pending call arrives and is ok
ApiResponseOk ==
    /\ \E p \in pending : \E body \in Bodies(p.key) :
          /\ pending' = pending \ {p}
          /\ cache' = [cache EXCEPT ![p.key] = [data |-> Stored(p.key, body),
                                                timestamp |-> StoredAt(p)]]
          /\ returned' = [kind |-> "ok", key |-> p.key, at |-> DateNow,
                          data |-> Stored(p.key, body), cacheBefore |-> cache,
                          stored |-> Stored(p.key, body)]
    /\ UNCHANGED <<ledgerVars, pageVars, now, api>>

\* the request of a pending call fails
ApiResponseFails ==
    /\ \E p \in pending :
          /\ pending' = pending \ {p}
          /\ returned' = [kind |-> "failed", key |-> p.key, at |-> DateNow,
                          data |-> Fallback(p), cacheBefore |-> cache,
                          stored |-> JsNull]
    /\ UNCHANGED <<ledgerVars, pageVars, now, api, cache>>

\* time passes between the calls and the responses
ApiClockTick ==
    /\ now < MaxClock
    /\ now' = now + 1
    /\ UNCHANGED <<ledgerVars, otherVars>>

NextCache ==
    \/ ImportApi
    \/ ApiCall
    \/ ApiResponseOk
    \/ ApiResponseFails
    \/ ApiClockTick

SpecCache == Init /\ [][NextCache]_vars

(***************************************************************************)
(* part_001: price alerts                                                  *)
(*                                                                         *)
(* SpecAlerts follows the alerts set from the trade dialog and the         *)
(* checkAlerts() run that fetchCryptoData makes over each response.  The   *)
(* stored copy of the alerts (cryptoAlerts) is not modelled.               *)
(***************************************************************************)
\* at most this many alerts are set
MaxAlerts == 2

\* what the user can type in the prompt of openAlertDialog
AlertTexts == { <<"a">>, <<"1">>, <<"1", "5", "0">> }

\* targetPrice && !isNaN(targetPrice) && parseFloat(targetPrice) > 0
AlertAccepted(text) ==
    /\ Len(text) > 0
    /\ LiteralLen(text) = Len(text)
    /\ JsGt(parseFloat(text), Zero)

\* part_001 openAlertDialog(), from the button of the trade dialog: an accepted
\* text adds an alert for currentCoin (any other text changes nothing)
OpenAlertDialog ==
    /\ script = "part_001"
    /\ modalActive
    /\ Len(alerts) < MaxAlerts
    /\ \E text \in AlertTexts :
          /\ AlertAccepted(text)
          /\ alerts' = Append(alerts, [coinId |-> currentCoin.id,
                                       targetPrice |-> parseFloat(text),
                                       currentPrice |-> currentCoin.current_price])
    /\ localStorage' = saveToStorage(localStorage, portfolio, transactions)
    /\ last' = NoLast
    /\ UNCHANGED <<twin, apiVars, pageVars, script, now, portfolio, transactions,
                   cryptoData, fetches, currentCoin, tradeType, activeTab, modalActive,
                   history>>

NextAlerts ==
    \/ FetchCryptoData
    \/ OpenTradeModal
    \/ OpenAlertDialog

SpecAlerts == Init /\ [][NextAlerts]_vars

(***************************************************************************)
(* app.js: pages of the market table                                       *)
(*                                                                         *)
(* fetchMarkets(p) awaits its response; the page buttons and the           *)
(* 60-second timer start further calls meanwhile, and the responses arrive *)
(* in any order.  SpecPages follows the calls and the arrivals; the coins  *)
(* of a response tell the page it was requested for.  (In Spec the market  *)
(* stays on page 1 and a response arrives before the next call is made.)   *)
(***************************************************************************)
\* the Next button is followed up to this page
MaxPage == 4

\* the ids of the coins the endpoint lists on page p
PageIds(p) ==
    IF p = 1 THEN {"btc", "eth"}
    ELSE IF p = 2 THEN {"ada"}
    ELSE IF p = 3 THEN {"xrp"}
    ELSE IF p = 4 THEN {"sol"}
    ELSE {"dot"}

\* the response of the endpoint for page p
PageResponse(p) == {Coin(id, 100) : id \in PageIds(p)}

\* init() and the 60-second timer: fetchMarkets(page)
RefreshMarkets ==
    /\ script = "app.js"
    /\ inflight' = inflight \cup {page}
    /\ UNCHANGED <<ledgerVars, apiVars, marketVars, now, page>>

\* #nextPageBtn: page++; fetchMarkets(page)
NextPageClick ==
    /\ script = "app.js"
    /\ page < MaxPage
    /\ page' = page + 1
    /\ inflight' = inflight \cup {page + 1}
    /\ UNCHANGED <<ledgerVars, apiVars, marketVars, now>>

\* #prevPageBtn: if (page > 1) { page--; fetchMarkets(page); }
PrevPageClick ==
    /\ script = "app.js"
    /\ page > 1
    /\ page' = page - 1
    /\ inflight' = inflight \cup {page - 1}
    /\ UNCHANGED <<ledgerVars, apiVars, marketVars, now>>

\* the response of one of the awaited calls arrives: cryptoData = await res.json()
MarketsArrive ==
    /\ \E p \in inflight :
          /\ cryptoData' = PageResponse(p)
          /\ inflight' = inflight \ {p}
    /\ UNCHANGED <<script, portfolio, transactions, fetches, currentCoin, tradeType,
                   activeTab, modalActive, localStorage, last, history, twin, alerts,
                   apiVars, marketVars, now, page>>

NextPages ==
    \/ RefreshMarkets
    \/ NextPageClick
    \/ PrevPageClick
    \/ MarketsArrive

SpecPages == Init /\ [][NextPages]_vars

(***************************************************************************)
(* part_002: the market page, paginated in the browser                     *)
(*                                                                         *)
(* init() fetches the coins once; the search box, the column headers and   *)
(* the two page buttons then change state and call renderPaginatedMarket,  *)
(* which filters, sorts, brings currentPage into the range of the pages    *)
(* and shows one page.  Texts are sequences of characters.  A click is     *)
(* followed whether or not the last render disabled its button: the        *)
(* listeners themselves do not look at the flag.                           *)
(***************************************************************************)
\* the longest list of coins the endpoint returns
MaxCoins == 45

\* String.prototype.toLowerCase, on the characters the texts are made of
LowerChar(c) ==
    IF c = "A" THEN "a"
    ELSE IF c = "B" THEN "b"
    ELSE IF c = "E" THEN "e"
    ELSE IF c = "T" THEN "t"
    ELSE c

toLowerCase(text) == [i \in 1..Len(text) |-> LowerChar(text[i])]

\* String.prototype.includes
includes(text, part) ==
    \E i \in 0..(Len(text) - Len(part)) : SubSeq(text, i + 1, i + Len(part)) = part

\* the order of the characters in localeCompare
CharRank(c) ==
    IF c \in {"a", "A"} THEN 1
    ELSE IF c \in {"b", "B"} THEN 2
    ELSE IF c = "c" THEN 3
    ELSE IF c = "d" THEN 4
    ELSE IF c \in {"e", "E"} THEN 5
    ELSE IF c = "h" THEN 6
    ELSE IF c = "i" THEN 7
    ELSE IF c \in {"t", "T"} THEN 8
    ELSE 9

\* a.localeCompare(b): negative, zero or positive
RECURSIVE localeCompare(_, _)
localeCompare(a, b) ==
    IF a = <<>> /\ b = <<>> THEN 0
    ELSE IF a = <<>> THEN -1
    ELSE IF b = <<>> THEN 1
    ELSE IF CharRank(Head(a)) # CharRank(Head(b))
         THEN CharRank(Head(a)) - CharRank(Head(b))
    ELSE localeCompare(Tail(a), Tail(b))

\* the k-th coin of the endpoint's list
Listed(k) ==
    IF k % 3 = 1
    THEN [name |-> <<"B", "i", "t">>, symbol |-> <<"b", "t", "c">>, market_cap_rank |-> k]
    ELSE IF k % 3 = 2
    THEN [name |-> <<"E", "t", "h">>, symbol |-> <<"e", "t", "h">>, market_cap_rank |-> k]
    ELSE [name |-> <<"A", "d", "a">>, symbol |-> <<"a", "d", "a">>, market_cap_rank |-> k]

\* what fetchCoins() resolves to: the first n coins of the list
MarketCoins(n) == [k \in 1..n |-> Listed(k)]

\* the lengths of the lists init() is followed with
MarketSizes == {0, 1, itemsPerPage, itemsPerPage + 1, 2 * itemsPerPage, MaxCoins}

\* e.target.value of the search box
Queries == {<<>>, <<"b">>, <<"T">>, <<"x">>, <<"e", "t">>}

\* th[data-sort]
SortKeys == {"market_cap_rank", "name"}

\* state.coins.filter(coin => ...)
FilterCoins(st) ==
    SelectSeq(st.coins,
              LAMBDA coin : \/ st.searchQuery = <<>>
                            \/ includes(toLowerCase(coin.name), st.searchQuery)
                            \/ includes(toLowerCase(coin.symbol), st.searchQuery))

\* the comparator of sortCoins: negative when a goes before b
CompareCoins(st, a, b) ==
    IF st.sortKey = "name"
    THEN IF st.sortOrder = "asc" THEN localeCompare(a.name, b.name)
         ELSE localeCompare(b.name, a.name)
    ELSE IF st.sortOrder = "asc" THEN a.market_cap_rank - b.market_cap_rank
         ELSE b.market_cap_rank - a.market_cap_rank

\* one coin put into a sorted list, after the coins it does not go before
RECURSIVE InsertCoin(_, _, _)
InsertCoin(st, sorted, coin) ==
    IF sorted = <<>> THEN <<coin>>
    ELSE IF CompareCoins(st, coin, Head(sorted)) < 0 THEN <<coin>> \o sorted
    ELSE <<Head(sorted)>> \o InsertCoin(st, Tail(sorted), coin)

\* [...coinsArray].sort(comparator): Array.prototype.sort is stable
RECURSIVE SortFrom(_, _, _, _)
SortFrom(st, coinsArray, index, sorted) ==
    IF index > Len(coinsArray) THEN sorted
    ELSE SortFrom(st, coinsArray, index + 1, InsertCoin(st, sorted, coinsArray[index]))

sortCoins(st, coinsArray) == SortFrom(st, coinsArray, 1, <<>>)

\* Math.ceil(totalItems / state.itemsPerPage) || 1
TotalPages(totalItems) ==
    LET ceil == (totalItems + itemsPerPage - 1) \div itemsPerPage
    IN  IF ceil = 0 THEN 1 ELSE ceil

\* the clamp without its upper bound
ClampPage_LowerOnly(currentPage, totalPages) ==
    IF currentPage < 1 THEN 1 ELSE currentPage

\* if (currentPage > totalPages) currentPage = totalPages;
\* if (currentPage < 1) currentPage = 1;
ClampPage(currentPage, totalPages) ==
    LET upper == IF currentPage > totalPages THEN totalPages ELSE currentPage
    IN  IF upper < 1 THEN 1 ELSE upper

\* Array.prototype.slice(start, end), start and end counted from 0
Slice(list, start, end) ==
    SubSeq(list, start + 1, IF end > Len(list) THEN Len(list) ELSE end)

\* renderPaginatedMarket(): the state it leaves and what it shows, for the state
\* st the handler has prepared
renderPaginatedMarket(st) ==
    LET sorted == sortCoins(st, FilterCoins(st))
        totalPages == TotalPages(Len(sorted))
        currentPage == ClampPage(st.currentPage, totalPages)
        start == (currentPage - 1) * itemsPerPage
        pageItems == Slice(sorted, start, start + itemsPerPage)
    IN  [state |-> [st EXCEPT !.currentPage = currentPage],
         rows |-> [i \in 1..Len(pageItems) |-> pageItems[i].market_cap_rank],
         pageInfo |-> <<currentPage, totalPages>>,
         prevDisabled |-> currentPage = 1,
         nextDisabled |-> currentPage = totalPages]

\* one handler of the market page: it prepares st, then renders
MarketEvent(event, st) ==
    /\ \E r \in {renderPaginatedMarket(st)} :
          /\ state' = r.state
          /\ marketTable' = [listening |-> TRUE, rows |-> r.rows,
                             pageInfo |-> r.pageInfo,
                             prevDisabled |-> r.prevDisabled,
                             nextDisabled |-> r.nextDisabled,
                             event |-> event, pageBefore |-> state.currentPage]
    /\ UNCHANGED <<ledgerVars, apiVars, now, page, inflight>>

\* init(): state.coins = await fetchCoins(); renderPaginatedMarket();
\* setupEventListeners()
MarketInit ==
    /\ ~marketTable.listening
    /\ \E n \in MarketSizes :
          MarketEvent("init", [state EXCEPT !.coins = MarketCoins(n)])

\* #searchInput, input
SearchInput ==
    /\ marketTable.listening
    /\ \E value \in Queries :
          MarketEvent("input", [state EXCEPT !.searchQuery = toLowerCase(value),
                                             !.currentPage = 1])

\* th[data-sort], click
SortClick ==
    /\ marketTable.listening
    /\ \E newSortKey \in SortKeys :
          MarketEvent("sort",
              IF state.sortKey = newSortKey
              THEN [state EXCEPT !.sortOrder = IF state.sortOrder = "asc"
                                               THEN "desc" ELSE "asc",
                                 !.currentPage = 1]
              ELSE [state EXCEPT !.sortKey = newSortKey, !.sortOrder = "asc",
                                 !.currentPage = 1])

\* #prevPageBtn, click: on page 1 the listener does nothing
PrevPageBtnClick ==
    /\ marketTable.listening
    /\ IF state.currentPage > 1
       THEN MarketEvent("prev", [state EXCEPT !.currentPage = state.currentPage - 1])
       ELSE /\ marketTable' = [marketTable EXCEPT !.event = "prev",
                                                  !.pageBefore = state.currentPage]
            /\ UNCHANGED <<ledgerVars, apiVars, now, page, inflight, state>>

\* #nextPageBtn, click
NextPageBtnClick ==
    /\ marketTable.listening
    /\ MarketEvent("next", [state EXCEPT !.currentPage = state.currentPage + 1])

NextMarket ==
    \/ MarketInit
    \/ SearchInput
    \/ SortClick
    \/ PrevPageBtnClick
    \/ NextPageBtnClick

SpecMarket == Init /\ [][NextMarket]_vars

(***************************************************************************)
(* Vocabulary of the properties                                            *)
(***************************************************************************)
\* the last handler run was a trade attempt
TradeRan == last.op = "trade"

\* the ledger before the last trade attempt
Before == last.before

\* the quantity, unit price and total of the last trade attempt
Qty == parseFloat(last.value)

Price == last.coin.current_price

Total == JsMul(Qty, Price)

InvalidToasts == {"Enter a valid amount", "Please enter a valid amount"}

FundsToasts == {"Insufficient balance", "Insufficient balance!"}

HoldingsToasts == {"Not enough holdings", "Insufficient holdings!"}

SuccessToasts == {"Trade successful", "Successfully bought", "Successfully sold"}

\* the last trade attempt was rejected / was applied
TradeRejected == TradeRan /\ last.toast \in InvalidToasts \cup FundsToasts \cup HoldingsToasts

TradeAccepted == TradeRan /\ last.toast \in SuccessToasts

\* the holding of id in pf, with an absent holding read as quantity 0, cost basis 0
HoldingOf(pf, id) ==
    IF id \in DOMAIN pf.holdings THEN pf.holdings[id]
    ELSE [amount |-> Zero, totalCost |-> Zero]

HeldBefore == last.coin.id \in DOMAIN Before.portfolio.holdings

\* the transaction a trade of the last attempt's coin, quantity and price records
Logged(side) ==
    [date |-> now, type |-> side, coin |-> last.coin.id, amount |-> Qty,
     price |-> Price, total |-> Total]

(***************************************************************************)
(* C1  After any sequence of trade attempts from the initial portfolio the *)
(* cash balance is never negative.                                         *)
(***************************************************************************)
C1_CashNeverNegative == JsLe(Zero, portfolio.balance)

\* a buy has spent the whole balance: the balance sits on the boundary 0
C1_Witness ==
    /\ TradeAccepted /\ last.type = "buy"
    /\ JsGt(Total, Zero)
    /\ portfolio.balance = Zero

(***************************************************************************)
(* C2  Every entry of holdings has a quantity strictly greater than zero;  *)
(* a sell of exactly the held quantity deletes the asset's entry.          *)
(***************************************************************************)
C2_HoldingsPositive ==
    /\ \A id \in DOMAIN portfolio.holdings : JsGt(portfolio.holdings[id].amount, Zero)
    /\ (TradeAccepted /\ last.type = "sell"
          /\ Qty = HoldingOf(Before.portfolio, last.coin.id).amount)
       => last.coin.id \notin DOMAIN portfolio.holdings

\* a holding has been sold in full and its entry is gone, another one is still held
C2_Witness ==
    /\ TradeAccepted /\ last.type = "sell" /\ HeldBefore
    /\ Qty = Before.portfolio.holdings[last.coin.id].amount
    /\ last.coin.id \notin DOMAIN portfolio.holdings
    /\ DOMAIN portfolio.holdings # {}

(***************************************************************************)
(* C3  A rejected trade leaves the cash balance, the holdings, the         *)
(* transaction log and the persisted records exactly as they were.         *)
(***************************************************************************)
C3_RejectionAtomic == TradeRejected => Ledger = Before

\* a buy is rejected for lack of funds when trades were already logged and stored
C3_Witness ==
    /\ TradeRejected /\ last.toast \in FundsToasts
    /\ Len(transactions) > 0
    /\ localStorage.portfolio # <<>>

(***************************************************************************)
(* C4  A buy with positive quantity is rejected if and only if             *)
(* quantity * unitPrice is strictly greater than the cash balance; a buy   *)
(* whose total equals the balance succeeds and leaves the balance at 0.    *)
(***************************************************************************)
C4_BuyRejectedIffOverBalance ==
    (TradeRan /\ last.type = "buy" /\ JsGt(Qty, Zero)) =>
        /\ TradeRejected <=> JsGt(Total, Before.portfolio.balance)
        /\ TradeAccepted <=> ~JsGt(Total, Before.portfolio.balance)
        /\ Total = Before.portfolio.balance =>
              (TradeAccepted /\ portfolio.balance = Zero)

\* a buy whose total is exactly the (non-zero) balance has gone through
C4_Witness ==
    /\ TradeAccepted /\ last.type = "buy" /\ JsGt(Qty, Zero)
    /\ Total = Before.portfolio.balance
    /\ JsGt(Total, Zero)
    /\ portfolio.balance = Zero

(***************************************************************************)
(* C5  A successful buy of q at price p decreases the balance by q*p,      *)
(* creates the holding (0, 0) if absent, adds q to its quantity and q*p to *)
(* its cost basis, and records one BUY transaction (q, p, q*p).            *)
(***************************************************************************)
C5_BuyEffect ==
    (TradeAccepted /\ last.type = "buy") =>
        LET h0 == HoldingOf(Before.portfolio, last.coin.id)
        IN  /\ portfolio.balance = JsSub(Before.portfolio.balance, Total)
            /\ last.coin.id \in DOMAIN portfolio.holdings
            /\ portfolio.holdings[last.coin.id] =
                  [amount |-> JsAdd(h0.amount, Qty),
                   totalCost |-> JsAdd(h0.totalCost, Total)]
            /\ transactions = <<Logged("BUY")>> \o Before.transactions

\* a second buy of an asset at another price than the first
C5_Witness ==
    /\ TradeAccepted /\ last.type = "buy" /\ HeldBefore
    /\ JsGt(Total, Zero)
    /\ Len(transactions) >= 2
    /\ transactions[2].coin = last.coin.id
    /\ transactions[2].price # Price

(***************************************************************************)
(* C6  A successful sell of q at price p from a holding (Q, C) increases   *)
(* the balance by q*p, reduces the cost basis by (C / Q) * q with Q the    *)
(* quantity before the decrement, and reduces the quantity to Q - q (a     *)
(* holding sold in full is read as quantity 0, cost basis 0).  Buy 2 at    *)
(* 100, buy 3 at 200, sell 2 at 150 ends with quantity 3, cost basis 480   *)
(* and the balance 300 higher than before the sell.                        *)
(***************************************************************************)
AverageCostExample ==
    << [date |-> Epoch, type |-> "SELL", coin |-> "btc", amount |-> Num(2),
        price |-> Num(150), total |-> Num(300)],
       [date |-> Epoch, type |-> "BUY", coin |-> "btc", amount |-> Num(3),
        price |-> Num(200), total |-> Num(600)],
       [date |-> Epoch, type |-> "BUY", coin |-> "btc", amount |-> Num(2),
        price |-> Num(100), total |-> Num(200)] >>

C6_SellEffect ==
    /\ (TradeAccepted /\ last.type = "sell") =>
          /\ HeldBefore
          /\ LET h0 == HoldingOf(Before.portfolio, last.coin.id)
                 removedCost == JsMul(JsDiv(h0.totalCost, h0.amount), Qty)
             IN  /\ portfolio.balance = JsAdd(Before.portfolio.balance, Total)
                 /\ HoldingOf(portfolio, last.coin.id) =
                       [amount |-> JsSub(h0.amount, Qty),
                        totalCost |-> JsSub(h0.totalCost, removedCost)]
    /\ (TradeAccepted /\ transactions = AverageCostExample) =>
          /\ HoldingOf(portfolio, "btc") = [amount |-> Num(3), totalCost |-> Num(480)]
          /\ portfolio.balance = JsAdd(Before.portfolio.balance, Num(300))

\* the run buy 2 at 100, buy 3 at 200, sell 2 at 150 has just been completed
C6_Witness ==
    /\ TradeAccepted /\ last.type = "sell"
    /\ transactions = AverageCostExample
    /\ Before.portfolio.holdings["btc"] = [amount |-> Num(5), totalCost |-> Num(800)]

(***************************************************************************)
(* C7  A sell with positive quantity is rejected if and only if the asset  *)
(* has no holding or the quantity is strictly greater than the held        *)
(* quantity; a sell of exactly the held quantity succeeds.                 *)
(***************************************************************************)
C7_SellRejectedIffOverHolding ==
    (TradeRan /\ last.type = "sell" /\ JsGt(Qty, Zero)) =>
        LET over == ~HeldBefore
                    \/ JsGt(Qty, HoldingOf(Before.portfolio, last.coin.id).amount)
        IN  /\ TradeRejected <=> over
            /\ TradeAccepted <=> ~over
            /\ (HeldBefore /\ Qty = HoldingOf(Before.portfolio, last.coin.id).amount)
                  => TradeAccepted

\* a sell of 3 from a holding of 2 has been rejected
C7_Witness ==
    /\ TradeRejected /\ last.type = "sell" /\ HeldBefore
    /\ Qty = Num(3)
    /\ Before.portfolio.holdings[last.coin.id].amount = Num(2)

(***************************************************************************)
(* C8  Every rejected trade yields a result that identifies which error    *)
(* occurred; a sell of an asset that was never bought or was fully sold    *)
(* (NoSuchHolding) is distinguishable from a sell of more than an existing *)
(* holding (InsufficientHoldings).                                         *)
(***************************************************************************)
\* what the handler of the running script shows for the last attempt on portfolio pf
ToastOn(pf) ==
    IF script = "app.js"
    THEN confirmTrade(pf, Before.transactions, Before.localStorage,
                      last.coin, last.type, last.value, now).toast
    ELSE executeTrade(pf, Before.transactions, Before.localStorage, cryptoData,
                      last.coin, last.type, last.value, now).toast

\* the portfolio before the last attempt, but holding less of the coin than asked
WithSmallerHolding ==
    [Before.portfolio EXCEPT !.holdings =
        PutHolding(@, last.coin.id,
                   [amount |-> JsDiv(Qty, Num(2)), totalCost |-> Zero])]

\* the error of the last trade attempt, "None" if it has none
Cause ==
    IF ~JsGt(Qty, Zero) THEN "InvalidQuantity"
    ELSE IF last.type = "buy"
         THEN IF JsGt(Total, Before.portfolio.balance) THEN "InsufficientFunds" ELSE "None"
    ELSE IF ~HeldBefore THEN "NoSuchHolding"
    ELSE IF JsGt(Qty, Before.portfolio.holdings[last.coin.id].amount)
         THEN "InsufficientHoldings" ELSE "None"

RECURSIVE SumCost(_, _)
SumCost(pf, ids) ==
    IF ids = {} THEN Zero
    ELSE LET id == CHOOSE x \in ids : TRUE
         IN  JsAdd(pf.holdings[id].totalCost, SumCost(pf, ids \ {id}))

\* cash balance plus the cost bases of all holdings
BasisValue(pf) == JsAdd(pf.balance, SumCost(pf, DOMAIN pf.holdings))

\* the claim as stated, for the sequences that start at the initial portfolio
C10_Original == BasisValue(portfolio) = Num(InitialBalance(script))

\* as amended: a buy conserves the sum; a sell changes it by the proceeds minus
\* the cost removed, q*p - (C / Q) * q
C10_ConservedUpToRealisedPnL ==
    /\ (TradeAccepted /\ last.type = "buy") =>
          BasisValue(portfolio) = BasisValue(Before.portfolio)
    /\ (TradeAccepted /\ last.type = "sell") =>
          LET h0 == HoldingOf(Before.portfolio, last.coin.id)
              removedCost == JsMul(JsDiv(h0.totalCost, h0.amount), Qty)
          IN  BasisValue(portfolio) =
                 JsAdd(BasisValue(Before.portfolio), JsSub(Total, removedCost))

\* part of a holding has been sold at a price other than its average cost
C10_Witness ==
    /\ TradeAccepted /\ last.type = "sell" /\ HeldBefore
    /\ last.coin.id \in DOMAIN portfolio.holdings
    /\ Total # JsMul(JsDiv(Before.portfolio.holdings[last.coin.id].totalCost,
                           Before.portfolio.holdings[last.coin.id].amount), Qty)
    /\ BasisValue(portfolio) # BasisValue(Before.portfolio)

(***************************************************************************)
(* C11  Round trip: a successful buy of X of an asset immediately followed *)
(* by a sell of the same X of that asset at the same unit price returns    *)
(* the cash balance and the asset's holding (quantity and cost basis, or   *)
(* absence) to their values before the buy.                                *)
(***************************************************************************)
\* the two newest transactions are a buy and then a sell of the same quantity of
\* the same asset at the same unit price
RoundTrip ==
    /\ Len(transactions) >= 2
    /\ transactions[2].type = "BUY" /\ transactions[1].type = "SELL"
    /\ transactions[1].coin = transactions[2].coin
    /\ transactions[1].amount = transactions[2].amount
    /\ transactions[1].price = transactions[2].price

\* the claim as stated: balance and holding are those before the buy
C11_Original ==
    RoundTrip =>
        LET id == transactions[1].coin
        IN  /\ portfolio.balance = history[2].before.balance
            /\ Held(portfolio, id) <=> Held(history[2].before, id)
            /\ HoldingOf(portfolio, id) = HoldingOf(history[2].before, id)

\* as amended: the balance and the quantity (or absence) are those before the
\* buy; the cost basis of a holding (Q, C) that existed before the buy becomes
\* (C + X*p) - ((C + X*p) / (Q + X)) * X, which is C exactly when C = Q * p
C11_RoundTripCashAndQuantity ==
    RoundTrip =>
        LET id == transactions[1].coin
            X == transactions[1].amount
            p == transactions[1].price
            h0 == HoldingOf(history[2].before, id)
            bought == JsAdd(h0.totalCost, JsMul(X, p))
            left == JsSub(bought, JsMul(JsDiv(bought, JsAdd(h0.amount, X)), X))
        IN  /\ portfolio.balance = history[2].before.balance
            /\ Held(portfolio, id) <=> Held(history[2].before, id)
            /\ HoldingOf(portfolio, id).amount = h0.amount
            /\ Held(history[2].before, id) =>
                  /\ portfolio.holdings[id].totalCost = left
                  /\ left = h0.totalCost <=> h0.totalCost = JsMul(h0.amount, p)

\* a round trip on a holding whose average cost was not the trade's price: the
\* cost basis has moved
C11_Witness ==
    /\ RoundTrip /\ TradeAccepted /\ last.type = "sell"
    /\ Held(history[2].before, transactions[1].coin)
    /\ Held(portfolio, transactions[1].coin)
    /\ portfolio.holdings[transactions[1].coin].totalCost
          # history[2].before.holdings[transactions[1].coin].totalCost

(***************************************************************************)
(* C12  No fees: the total portfolio value (cash balance plus quantity     *)
(* times current price over all priced holdings) computed with the market  *)
(* prices in force right after a successful trade equals the total         *)
(* portfolio value computed with those same prices right before the trade. *)
(***************************************************************************)
\* the total portfolio value of pf as the running script computes it from the
\* market data in force
TotalValue(pf) ==
    IF script = "app.js" THEN updateUI(pf, cryptoData)
    ELSE updatePortfolioValues(pf, cryptoData).totalValue

\* the claim as stated
C12_Original == TradeAccepted => TotalValue(portfolio) = TotalValue(Before.portfolio)

(***************************************************************************)
(* C13  The transaction log is append-only and newest-first: a successful  *)
(* buy or sell adds exactly one transaction at the front, a rejected       *)
(* attempt adds none, and the log before a step is the unchanged tail of   *)
(* the log after it; only a reset drops entries.                           *)
(***************************************************************************)
C13_LogAppendOnly ==
    [][ /\ (last'.op = "trade" /\ last'.toast \in SuccessToasts) =>
              /\ Len(transactions') = Len(transactions) + 1
              /\ Tail(transactions') = transactions
              /\ transactions'[1].type = (IF last'.type = "buy" THEN "BUY" ELSE "SELL")
        /\ (last'.op = "trade" /\ last'.toast \notin SuccessToasts) =>
              transactions' = transactions
        /\ last'.op \notin {"trade", "reset"} => transactions' = transactions
        /\ last'.op = "reset" => transactions' = <<>> ]_vars

\* a third trade has been logged in front of two earlier, different ones
C13_Witness ==
    /\ TradeAccepted
    /\ Len(transactions) = 3
    /\ Tail(transactions) = Before.transactions
    /\ transactions[1] # transactions[2]

Loaded(ls) ==
    IF script = "app.js" THEN loadState(ls, InitialPortfolio(script), <<>>)
    ELSE loadFromStorage(ls, InitialPortfolio(script), <<>>)

C15_PersistedEqualsMemory ==
    /\ TradeRan =>
          Loaded(localStorage) = [portfolio |-> portfolio, transactions |-> transactions]
    /\ TradeAccepted =>
          /\ localStorage.portfolio = <<JSONPortfolio(portfolio)>>
          /\ localStorage.transactions = <<JSONTransactions(transactions)>>
          /\ localStorage.portfolio # Before.localStorage.portfolio
          /\ localStorage.transactions # Before.localStorage.transactions

\* a sell has emptied the holdings: the stored records were replaced again
C15_Witness ==
    /\ TradeAccepted /\ last.type = "sell"
    /\ Before.localStorage.portfolio # <<>>
    /\ DOMAIN portfolio.holdings = {}
    /\ localStorage.portfolio = <<portfolio>>
    /\ Len(localStorage.transactions[1]) = 2

(***************************************************************************)
(* C16  Loading with no saved record yields the default initial state      *)
(* (starting balance, no holdings, empty log); loading after any sequence  *)
(* of trades (a page reload) restores exactly the balance, holdings and    *)
(* log that were in memory before the reload.                              *)
(***************************************************************************)
C16_LoadRestoresState ==
    last.op = "reload" =>
        /\ portfolio = Before.portfolio
        /\ transactions = Before.transactions
        /\ localStorage = Before.localStorage
        /\ (localStorage.portfolio = <<>> /\ localStorage.transactions = <<>>) =>
              /\ portfolio = InitialPortfolio(script)
              /\ transactions = <<>>

\* the page was loaded again after a buy and a sell that left a holding
C16_Witness ==
    /\ last.op = "reload"
    /\ Len(transactions) >= 2
    /\ transactions[1].type = "SELL"
    /\ DOMAIN portfolio.holdings # {}
    /\ portfolio.balance # Num(InitialBalance(script))

(***************************************************************************)
(* C17  After any sequence of trades, a reset leaves the application with  *)
(* the cash balance equal to the initial balance, no holdings and an empty *)
(* transaction log, both in memory after the reload and in the persisted   *)
(* store.                                                                  *)
(***************************************************************************)
C17_ResetRestoresInitialState ==
    last.op = "reset" =>
        /\ portfolio.balance = Num(InitialBalance(script))
        /\ DOMAIN portfolio.holdings = {}
        /\ transactions = <<>>
        /\ \A k \in DOMAIN localStorage : localStorage[k] = <<>>
        /\ Loaded(localStorage) =
              [portfolio |-> InitialPortfolio(script), transactions |-> <<>>]

\* the reset came after two logged trades, with a holding and stored records
C17_Witness ==
    /\ last.op = "reset"
    /\ Len(Before.transactions) >= 2
    /\ DOMAIN Before.portfolio.holdings # {}
    /\ Before.portfolio.balance # Num(InitialBalance(script))
    /\ Before.localStorage.portfolio # <<>>

(***************************************************************************)
(* C18  Valuation of a holding at a current price gives currentValue =     *)
(* quantity * price and pnlAmount = currentValue - costBasis; the P&L      *)
(* percentage is pnlAmount / costBasis * 100 when costBasis > 0 and 0 when *)
(* the cost basis is 0 (a holding bought at price 0): no division by a     *)
(* zero cost basis is performed for any reachable holding.                 *)
(***************************************************************************)
\* the price of id in the market data in force (id is in the data)
PriceOf(id) == (CHOOSE c \in Find(cryptoData, id) : TRUE).current_price

\* the claim as stated, on the rows part_001 renders at the end of a trade
C18_Original ==
    (TradeAccepted /\ script = "part_001") =>
        LET rows == displayPortfolio(portfolio, cryptoData)
        IN  \A id \in DOMAIN rows :
                LET h == portfolio.holdings[id]
                    value == JsMul(h.amount, PriceOf(id))
                    pnl == JsSub(value, h.totalCost)
                IN  /\ rows[id].currentValue = value
                    /\ rows[id].pl = pnl
                    /\ rows[id].plPercent =
                          (IF JsGt(h.totalCost, Zero)
                           THEN JsMul(JsDiv(pnl, h.totalCost), Num(100))
                           ELSE Zero)

(***************************************************************************)
(* C19  A price refresh and any valuation or rendering leave the cash      *)
(* balance, the holdings and the transaction log unchanged, also when the  *)
(* refresh lands between opening the trade dialog and confirming the       *)
(* trade; only a buy, a sell and a reset change them.                      *)
(***************************************************************************)
C19_OnlyTradesAndResetChangeLedger ==
    [][ /\ (portfolio' # portfolio \/ transactions' # transactions) =>
              \/ last'.op = "trade" /\ last'.toast \in SuccessToasts
              \/ last'.op = "reset"
        /\ (cryptoData' # cryptoData \/ fetches' # fetches) =>
              \/ portfolio' = portfolio /\ transactions' = transactions
              \/ last'.op = "reset" ]_vars

\* the dialog is open on a coin whose price in the market data has changed since
\* it was opened (a refresh landed in between), with a holding and a logged trade
C19_Witness ==
    /\ modalActive /\ last.op = "none"
    /\ Find(cryptoData, currentCoin.id) # {}
    /\ PriceOf(currentCoin.id) # currentCoin.current_price
    /\ DOMAIN portfolio.holdings # {}
    /\ transactions # <<>>

(***************************************************************************)
(* C20  The total portfolio value is the cash balance plus the sum of      *)
(* quantity * current price over exactly those holdings whose asset has a  *)
(* price in the current market data; a holding whose asset has no price    *)
(* contributes 0 and never makes the computation fail.                     *)
(***************************************************************************)
\* quantity * price of asset id in pf, 0 when id is not held or not in data
PricedValue(pf, data, id) ==
    IF id \in DOMAIN pf.holdings /\ (\E c \in data : c.id = id)
    THEN JsMul(pf.holdings[id].amount, (CHOOSE c \in data : c.id = id).current_price)
    ELSE Zero

\* the sum of PricedValue over the assets ids
RECURSIVE PricedSum(_, _, _)
PricedSum(pf, data, ids) ==
    IF ids = {} THEN Zero
    ELSE LET id == CHOOSE x \in ids : TRUE
         IN  JsAdd(PricedSum(pf, data, ids \ {id}), PricedValue(pf, data, id))

\* for the market data in force and for every response that lacks some of its
\* coins, each computation of the total gives the cash balance plus the value of
\* the priced holdings, a finite number; the board entry is that total (a state
\* left by an attempt that changed nothing has the portfolio and the market
\* data of the state before it, where the totals are compared)
C20_TotalValueOverPricedHoldings ==
    /\ ~Unchanged => \A data \in SUBSET cryptoData :
          \A expected \in {JsAdd(portfolio.balance, PricedSum(portfolio, data, Assets))} :
              /\ IsFinite(expected)
              /\ script = "app.js" => updateUI(portfolio, data) = expected
              /\ script = "part_001" =>
                     updatePortfolioValues(portfolio, data).totalValue = expected
    /\ (TradeAccepted /\ script = "part_001") =>
          localStorage.leaderboard =
              <<JsAdd(portfolio.balance, PricedSum(portfolio, cryptoData, Assets))>>

\* part_001 has rendered after a reload, before any market response: two assets
\* are held, none has a price, the total is the cash balance
C20_Witness ==
    /\ last.op = "reload" /\ script = "part_001"
    /\ DOMAIN portfolio.holdings = Assets
    /\ cryptoData = {}
    /\ PartView(portfolio, cryptoData).total = portfolio.balance
    /\ portfolio.balance # Num(InitialBalance(script))

(***************************************************************************)
(* C21  The unit price used by a trade (for the balance check, the cash    *)
(* movement and the recorded transaction) is the asset's price in the most *)
(* recently fetched market data at the moment the trade is confirmed, also *)
(* when a price refresh completed between opening the trade dialog and     *)
(* confirming.                                                             *)
(***************************************************************************)
\* the cash a trade of the last attempt's side and quantity moves at unit price p
CashMove(p) ==
    IF last.type = "buy" THEN JsNeg(JsMul(Qty, p)) ELSE JsMul(Qty, p)

\* the claim as stated: the logged price and the cash movement of an accepted
\* trade are those of the price the traded asset has in cryptoData, which the
\* trade handlers leave as the latest response made it
C21_Original ==
    (TradeAccepted /\ Find(cryptoData, last.coin.id) # {}) =>
        /\ transactions[1].price = PriceOf(last.coin.id)
        /\ portfolio.balance =
              JsAdd(Before.portfolio.balance, CashMove(PriceOf(last.coin.id)))

(***************************************************************************)
(* C22  When the storage write that follows a successful trade fails, the  *)
(* in-memory balance, holdings and log keep the applied trade (no          *)
(* rollback), the trade is applied exactly once, and the application stays *)
(* usable for the next trade.                                              *)
(***************************************************************************)
\* the last handler run applied a trade and was ended by a throwing write
ThrowRan == last.op = "throw"

\* the type logged for the side of the last attempt
Side == IF last.type = "buy" THEN "BUY" ELSE "SELL"

\* the stored log of ledger b is not the log b has in memory
Lagging(b) ==
    /\ b.transactions # <<>>
    /\ b.localStorage.transactions # <<JSONTransactions(b.transactions)>>

\* after a throwing write the ledger in memory is the ledger before it with
\* the trade applied once, and the dialog with its coin and side is still up;
\* a trade accepted while the stored log lags is applied once as well and
\* brings the stored records back to the ledger in memory
C22_NoRollbackOnWriteFailure ==
    /\ ThrowRan =>
          LET h0 == HoldingOf(Before.portfolio, last.coin.id)
              dq == IF last.type = "buy" THEN Qty ELSE JsNeg(Qty)
          IN  /\ transactions = <<Logged(Side)>> \o Before.transactions
              /\ portfolio.balance = JsAdd(Before.portfolio.balance, CashMove(Price))
              /\ HoldingOf(portfolio, last.coin.id).amount = JsAdd(h0.amount, dq)
              /\ \A id \in Assets \ {last.coin.id} :
                    HoldingOf(portfolio, id) = HoldingOf(Before.portfolio, id)
              /\ modalActive /\ currentCoin = last.coin /\ tradeType = last.type
              /\ localStorage.transactions = Before.localStorage.transactions
                    \/ localStorage.transactions = <<JSONTransactions(transactions)>>
    /\ (TradeAccepted /\ Lagging(Before)) =>
          /\ transactions = <<Logged(Side)>> \o Before.transactions
          /\ portfolio.balance = JsAdd(Before.portfolio.balance, CashMove(Price))
          /\ Loaded(localStorage) =
                [portfolio |-> portfolio, transactions |-> transactions]

\* app.js: the write of the log has thrown after a sell that was itself made
\* while the stored log lagged; the portfolio record was written, the log
\* record was not
C22_Witness ==
    /\ ThrowRan /\ script = "app.js" /\ last.type = "sell"
    /\ Lagging(Before)
    /\ localStorage.portfolio = <<JSONPortfolio(portfolio)>>
    /\ localStorage.transactions # <<JSONTransactions(transactions)>>
    /\ Len(transactions) = 2

\* a trade has been accepted and saved after a throwing write
C22_NextTradeWitness ==
    /\ TradeAccepted /\ Lagging(Before)
    /\ Len(transactions) = 2

(***************************************************************************)
(* C23  With the same starting balance and the same sequence of trade      *)
(* intents (asset, side, quantity, price), confirmTrade of app.js and      *)
(* executeTrade of part_001 reach the same cash balance, the same holdings *)
(* (asset set, quantity, cost basis) and the same sequence of logged       *)
(* (type, amount, price, total) after every step: both divide the cost     *)
(* basis by the pre-decrement quantity.                                    *)
(***************************************************************************)
\* the (type, amount, price, total) of the entries of a log
LoggedFields(txs) ==
    [i \in 1..Len(txs) |->
        [type |-> txs[i].type, amount |-> txs[i].amount, price |-> txs[i].price,
         total |-> txs[i].total]]

\* after every intent the ledger of confirmTrade and the ledger of executeTrade
\* agree on the balance, on the set of held assets, on each holding's quantity
\* and cost basis and on the logged fields
C23_HandlersAgree ==
    /\ twin.portfolio.balance = portfolio.balance
    /\ DOMAIN twin.portfolio.holdings = DOMAIN portfolio.holdings
    /\ \A id \in DOMAIN portfolio.holdings :
          /\ twin.portfolio.holdings[id].amount = portfolio.holdings[id].amount
          /\ twin.portfolio.holdings[id].totalCost = portfolio.holdings[id].totalCost
    /\ LoggedFields(twin.transactions) = LoggedFields(transactions)

\* both handlers have sold part of a holding that was bought at two prices
C23_Witness ==
    /\ last.op = "lockstep" /\ last.type = "sell" /\ last.toast = "Trade successful"
    /\ Len(twin.transactions) = 3
    /\ twin.transactions[2].price # twin.transactions[3].price
    /\ last.coin.id \in DOMAIN twin.portfolio.holdings
    /\ last.coin.id \in DOMAIN portfolio.holdings

(***************************************************************************)
(* C24  When the network fetch of the coin list fails and an earlier fetch *)
(* had succeeded, fetchCoins returns the previously cached coin data, even *)
(* if it is expired, and returns an empty array only when nothing was ever *)
(* cached.                                                                 *)
(***************************************************************************)
\* the last step of the module was a failed request of fetchCoins
CoinsFetchFailed == returned.kind = "failed" /\ returned.key = "coins"

\* the claim as stated: the failed call returns the entry's data when an earlier
\* response has filled the entry, and the empty array when none has
C24_Original ==
    CoinsFetchFailed =>
        returned.data = IF TruthyData(returned.cacheBefore.coins.data)
                        THEN returned.cacheBefore.coins.data
                        ELSE Array(<<>>)

(***************************************************************************)
(* C25  TTL cache: a call to fetchCoins or fetchCryptoNews made less than  *)
(* CACHE_DURATION (60000 ms) after the timestamp of a non-empty cache      *)
(* entry returns that cached data without a network request; a call made   *)
(* at or after expiry issues a request and, on success, replaces the       *)
(* entry; a failed request never changes the cache entry.                  *)
(***************************************************************************)
\* the entry holds data and t is less than CACHE_DURATION after its timestamp
WithinTtl(entry, t) ==
    entry.data # JsNull /\ t < entry.timestamp + CACHE_DURATION

\* in every step of the module: a call within the TTL of its entry returns the
\* entry's data and neither sends a request nor touches the cache; any other
\* call sends a request; an ok response replaces the entry of its key by the
\* data the call returns and leaves the other entry alone; a failed request
\* leaves the cache as it was
C25_TtlCache ==
    [][(returned' # returned \/ cache' # cache \/ pending' # pending) =>
          LET r == returned'
              e == cache[r.key]
          IN  /\ r.kind \in {"hit", "sent"} =>
                    /\ r.at = DateNow
                    /\ r.kind = "hit" <=> WithinTtl(e, DateNow)
                    /\ cache' = cache
              /\ r.kind = "hit" => r.data = e.data /\ pending' = pending
              /\ r.kind = "sent" =>
                    \E p \in pending' : p.key = r.key /\ p.now = DateNow
              /\ r.kind = "ok" =>
                    /\ cache'[r.key].data = r.data
                    /\ r.data # JsNull
                    /\ cache'[r.key].timestamp <= DateNow
                    /\ \A k \in CacheKeys \ {r.key} : cache'[k] = cache[k]
                    /\ Cardinality(pending') = Cardinality(pending) - 1
              /\ r.kind = "failed" => cache' = cache]_vars

\* an ok response has replaced an entry that had expired
C25_Witness ==
    /\ returned.kind = "ok"
    /\ returned.cacheBefore[returned.key].data # JsNull
    /\ returned.at >= returned.cacheBefore[returned.key].timestamp + CACHE_DURATION
    /\ cache[returned.key].data # returned.cacheBefore[returned.key].data
    /\ cache[returned.key].timestamp > returned.cacheBefore[returned.key].timestamp

(***************************************************************************)
(* C26  In the part_001 variant the side of an executed trade equals the   *)
(* side shown as active in the trade dialog at the moment the trade button *)
(* is pressed, for every sequence of opening the dialog, switching the     *)
(* Buy/Sell tab, executing and closing; a dialog just opened (showing Buy) *)
(* never executes a sell.                                                  *)
(***************************************************************************)
\* the claim as stated: executeTrade leaves the tabs as they are, so the side
\* shown when the button was pressed is the side shown after the handler ran
C26_Original ==
    (TradeAccepted /\ script = "part_001") => last.type = activeTab

(***************************************************************************)
(* C27  A trade on one asset leaves the quantity and cost basis of every   *)
(* other asset's holding unchanged, and a sell never changes any holding's *)
(* quantity or cost basis other than by the sold asset's own reduction.    *)
(***************************************************************************)
\* after an accepted trade every asset but the traded one is held exactly when
\* it was held before and with the same quantity and cost basis; after a sell
\* the sold asset's quantity and cost basis are those before, lowered
C27_OtherHoldingsUnchanged ==
    TradeAccepted =>
        /\ \A id \in Assets \ {last.coin.id} :
              /\ Held(portfolio, id) <=> Held(Before.portfolio, id)
              /\ Held(portfolio, id) =>
                    portfolio.holdings[id] = Before.portfolio.holdings[id]
        /\ DOMAIN portfolio.holdings \subseteq Assets
        /\ last.type = "sell" =>
              LET h0 == HoldingOf(Before.portfolio, last.coin.id)
                  h1 == HoldingOf(portfolio, last.coin.id)
              IN  /\ JsLt(h1.amount, h0.amount)
                  /\ JsLe(h1.totalCost, h0.totalCost)

\* an asset has been sold in full while the other asset is held
C27_Witness ==
    /\ TradeAccepted /\ last.type = "sell"
    /\ ~Held(portfolio, last.coin.id)
    /\ \E id \in Assets \ {last.coin.id} :
          /\ Held(portfolio, id)
          /\ JsGt(portfolio.holdings[id].totalCost, Zero)

(***************************************************************************)
(* C28  After one run of checkAlerts over fresh market data, every alert   *)
(* whose target price has been reached (price at or beyond the target in   *)
(* the direction it was set) has been removed from the alert list, and     *)
(* every alert whose target has not been reached is still in the list,     *)
(* whatever the number and order of alerts.                                *)
(***************************************************************************)
\* the alerts of list whose target the prices of data have not reached, in order
NotReached(list, data) == SelectSeq(list, LAMBDA a : ~AlertFires(a, data))

\* the claim as stated, over every step in which a response arrives
C28_Original ==
    [][fetches' # fetches => alerts' = NotReached(alerts, cryptoData')]_vars

(***************************************************************************)
(* C29  In app.js, once all market fetches started by next/previous page   *)
(* clicks and by the 60-second refresh have settled, the market data held  *)
(* in cryptoData is the response for the current value of page, whatever   *)
(* the order in which the overlapping responses arrived.                   *)
(***************************************************************************)
\* the claim as stated: when a response has arrived and no call awaits one, the
\* market data is the response for page
C29_Original ==
    (script = "app.js" /\ cryptoData # {} /\ inflight = {}) =>
        cryptoData = PageResponse(page)

(***************************************************************************)
(* C30  part_002, market page: after any sequence of previous, next,       *)
(* search and sort events the current page is within                       *)
(* 1..max(1, totalPages), totalPages being the number of pages the coins   *)
(* matching the search fill; and a 'previous' event never increases the    *)
(* page number: on page 1 it leaves the page at 1.                         *)
(***************************************************************************)
\* the pages the coins matching the search fill, counted page by page
RECURSIVE PagesOf(_)
PagesOf(totalItems) ==
    IF totalItems <= 0 THEN 0 ELSE 1 + PagesOf(totalItems - itemsPerPage)

Matching == {k \in 1..Len(state.coins) :
                \/ state.searchQuery = <<>>
                \/ includes(toLowerCase(state.coins[k].name), state.searchQuery)
                \/ includes(toLowerCase(state.coins[k].symbol), state.searchQuery)}

MaxOf(a, b) == IF a >= b THEN a ELSE b

C30_PageWithinRange ==
    /\ state.currentPage \in 1..MaxOf(1, PagesOf(Cardinality(Matching)))
    /\ marketTable.event = "prev" =>
          /\ state.currentPage <= marketTable.pageBefore
          /\ marketTable.pageBefore = 1 => state.currentPage = 1

\* a click on Next on the last of several pages has been brought back to it
C30_Witness ==
    /\ marketTable.event = "next"
    /\ marketTable.pageBefore = state.currentPage
    /\ state.currentPage >= 2
    /\ state.searchQuery # <<>>
    /\ state.sortOrder = "desc"

\* a click on Previous on page 1
C30_PreviousOnFirstPage ==
    /\ marketTable.event = "prev"
    /\ marketTable.pageBefore = 1
    /\ state.currentPage = 1
    /\ marketTable.pageInfo[2] >= 2

====
